---------------------------- MODULE Spec2Model ----------------------------
(***************************************************************************)
(* A model of rlox, a tree-walking interpreter for Lox: the parser         *)
(* (src/src/parser.rs), the resolver (src/src/resolver.rs) and the         *)
(* interpreter (src/src/interpreter.rs) with its environments, functions,  *)
(* classes and instances.  The pipeline functions are operators computed   *)
(* the way the code computes them; the state machine is one Interpreter    *)
(* that is fed source texts one after the other, as main.rs feeds lines.   *)
(***************************************************************************)
EXTENDS Integers, Sequences, FiniteSets, TLC

VARIABLES
    interp,              \* the Interpreter: scopes, globals, environment, heap behind the Rc's
    next_expression_id,  \* parser.rs NEXT_EXPRESSION_ID
    pc,                  \* the driver: "prompt", "parsed", "resolved", "ready" or "dead"
    statements,          \* the Vec<Stmt> of the input being processed
    pending_scopes,      \* the resolver's HashMap<ExprId, Depth> not yet added
    last,                \* what the last pipeline stage returned
    lines,               \* number of inputs read so far
    lexed                \* the characters read and what lex returned for them

vars == <<interp, next_expression_id, pc, statements, pending_scopes, last, lines, lexed>>

(***************************************************************************)
(* Maps (HashMap<String, _>) are functions on a finite set of strings.     *)
(***************************************************************************)
EmptyMap == [k \in {} |-> 0]

MapInsert(m, k, v) == [x \in (DOMAIN m) \cup {k} |-> IF x = k THEN v ELSE m[x]]

MapMerge(m, n) == [x \in (DOMAIN m) \cup (DOMAIN n) |-> IF x \in DOMAIN n THEN n[x] ELSE m[x]]

\* Option<T>: None is the empty sequence, Some(v) the one-element sequence.
None == <<>>

Some(v) == <<v>>

IsSome(o) == Len(o) > 0

(***************************************************************************)
(* Tokens.  A source text is given as the sequence of its lexemes; the     *)
(* token type of a lexeme is the one Lexer::next and Lexer::identifier     *)
(* give it.                                                                *)
(***************************************************************************)
PunctuationTable ==
    ("(" :> "LeftParen") @@ (")" :> "RightParen") @@ ("{" :> "LeftBrace") @@
    ("}" :> "RightBrace") @@ ("," :> "Comma") @@ ("." :> "Dot") @@
    ("+" :> "Plus") @@ ("-" :> "Minus") @@ ("*" :> "Star") @@ (";" :> "Semicolon") @@
    ("!" :> "Bang") @@ ("!=" :> "BangEqual") @@ ("=" :> "Equal") @@
    ("==" :> "EqualEqual") @@ ("<" :> "Less") @@ ("<=" :> "LessEqual") @@
    (">" :> "Greater") @@ (">=" :> "GreaterEqual") @@ ("/" :> "Slash")

KeywordTable ==
    ("and" :> "And") @@ ("class" :> "Class") @@ ("else" :> "Else") @@
    ("false" :> "False") @@ ("for" :> "For") @@ ("fun" :> "Fun") @@ ("if" :> "If") @@
    ("nil" :> "Nil") @@ ("or" :> "Or") @@ ("print" :> "Print") @@
    ("return" :> "Return") @@ ("super" :> "Super") @@ ("this" :> "This") @@
    ("true" :> "True") @@ ("var" :> "Var") @@ ("while" :> "While")

\* The number literals used in the sources, with the f64 each parses to.
NumberTable ==
    ("0" :> 0) @@ ("1" :> 1) @@ ("2" :> 2) @@ ("3" :> 3) @@ ("4" :> 4) @@
    ("5" :> 5) @@ ("6" :> 6) @@ ("7" :> 7)

\* The string literals used in the sources, with the text between the quotes.
StringTable ==
    ("\"a\"" :> "a") @@ ("\"b\"" :> "b") @@ ("\"outer\"" :> "outer") @@
    ("\"inner\"" :> "inner") @@ ("\"D\"" :> "D") @@ ("\"M\"" :> "M")

Token(token_type, lexeme, num, text) ==
    [token_type |-> token_type, lexeme |-> lexeme, line |-> 1, num |-> num, text |-> text]

TokenOf(w) ==
    IF w \in DOMAIN PunctuationTable THEN Token(PunctuationTable[w], w, 0, "")
    ELSE IF w \in DOMAIN KeywordTable THEN Token(KeywordTable[w], w, 0, "")
    ELSE IF w \in DOMAIN NumberTable THEN Token("Number", w, NumberTable[w], "")
    ELSE IF w \in DOMAIN StringTable THEN Token("String", w, 0, StringTable[w])
    ELSE Token("Identifier", w, 0, "")

\* lex: the tokens of the lexemes in source order, then the Eof sentinel.
lex(source) ==
    [i \in 1..(Len(source) + 1) |->
        IF i <= Len(source) THEN TokenOf(source[i]) ELSE Token("Eof", "", 0, "")]

(***************************************************************************)
(* The lexer on characters (lexer.rs).  Here a source is the sequence of   *)
(* its characters, each a string of length one.  The iterator              *)
(* source.chars().enumerate().peekable() is the index i of the character   *)
(* it yields next, counted from 1: the code's pos is i - 1, and the        *)
(* iterator is exhausted when i is past the end.                           *)
(***************************************************************************)
Digits == {"0", "1", "2", "3", "4", "5", "6", "7", "8", "9"}

Alphas ==
    {"a", "b", "c", "d", "e", "f", "g", "h", "i", "j", "k", "l", "m", "n", "o", "p", "q",
     "r", "s", "t", "u", "v", "w", "x", "y", "z", "A", "B", "C", "D", "E", "F", "G", "H",
     "I", "J", "K", "L", "M", "N", "O", "P", "Q", "R", "S", "T", "U", "V", "W", "X", "Y",
     "Z", "_"}

\* The index after the characters from i on that are in the set: what
\* `while self.is_digit() { self.source_iter.next(); }` leaves the iterator at.
RECURSIVE skip_while(_, _, _)
skip_while(source, i, set) ==
    IF i <= Len(source) /\ source[i] \in set THEN skip_while(source, i + 1, set) ELSE i

\* The &str of a slice of the source.
RECURSIVE str(_)
str(chars) == IF Len(chars) = 0 THEN "" ELSE chars[1] \o str(Tail(chars))

\* Whether str::parse::<f64> accepts a slice that starts with a digit:
\* digits, then optionally '.' and digits, then optionally an exponent.
parses_as_f64(slice) ==
    LET fraction == skip_while(slice, 1, Digits)
        exponent == IF fraction <= Len(slice) /\ slice[fraction] = "."
                    THEN skip_while(slice, fraction + 1, Digits)
                    ELSE fraction
        power == IF exponent <= Len(slice) /\ slice[exponent] \in {"e", "E"}
                 THEN IF exponent + 1 <= Len(slice) /\ slice[exponent + 1] \in {"+", "-"}
                      THEN exponent + 2
                      ELSE exponent + 1
                 ELSE exponent
    IN  /\ fraction > 1
        /\ IF power > exponent
           THEN /\ skip_while(slice, power, Digits) > power
                /\ skip_while(slice, power, Digits) = Len(slice) + 1
           ELSE exponent = Len(slice) + 1

\* A Lexer lx is the record of its source, the index i, the line and the
\* tokens and errors its iteration has produced so far; its status is "Ok",
\* "panic" or "hang" (a loop that never ends).  string, number and identifier
\* return the lexer they leave and Ok(token_type) or Err(err).

\* Lexer::string; start_pos is the index of the first character after the
\* quote, and the loop stops at the first quote or at the end.
Lexer_string(lx, start_pos) ==
    LET close == skip_while(lx.source, lx.i,
                            {lx.source[k] : k \in 1..Len(lx.source)} \ {"\""})
    IN  IF close <= Len(lx.source)
        THEN [lx |-> [lx EXCEPT !.i = close + 1], ok |-> TRUE, token_type |-> "String",
              literal |-> SubSeq(lx.source, start_pos, close - 1),
              err |-> [line |-> 0, msg |-> ""]]
        ELSE [lx |-> [lx EXCEPT !.i = close], ok |-> FALSE, token_type |-> "",
              literal |-> <<>>, err |-> [line |-> lx.line, msg |-> "Unterminated string"]]

\* Lexer::number.  With the '.' at index dot, digit_pos is dot - 1 and
\* nth(digit_pos + 1) takes dot + 1 elements off the iterator and returns the
\* last of them, the one at index 2 * dot.  The literal of the token stands
\* for the f64 the slice parses to; unwrap panics on a slice that does not parse.
Lexer_number(lx, start_pos) ==
    LET source == lx.source
        end == Len(source) + 1
        dot == skip_while(source, lx.i, Digits)
        i == IF dot <= Len(source) /\ source[dot] = "."
             THEN IF 2 * dot <= Len(source) /\ source[2 * dot] \in Digits
                  THEN skip_while(source, IF 2 * dot + 2 < end THEN 2 * dot + 2 ELSE end, Digits)
                  ELSE IF 2 * dot + 1 < end THEN 2 * dot + 1 ELSE end
             ELSE dot
    IN  [lx |-> [lx EXCEPT !.i = i,
                           !.status = IF parses_as_f64(SubSeq(source, start_pos, i - 1))
                                      THEN "Ok" ELSE "panic"],
         ok |-> TRUE, token_type |-> "Number", literal |-> SubSeq(source, start_pos, i - 1),
         err |-> [line |-> 0, msg |-> ""]]

\* Lexer::identifier
Lexer_identifier(lx, start_pos) ==
    LET i == skip_while(lx.source, lx.i, Alphas \cup Digits)
        text == str(SubSeq(lx.source, start_pos, i - 1))
    IN  [lx |-> [lx EXCEPT !.i = i], ok |-> TRUE,
         token_type |-> IF text \in DOMAIN KeywordTable THEN KeywordTable[text]
                        ELSE "Identifier",
         literal |-> <<>>, err |-> [line |-> 0, msg |-> ""]]

\* Some(Ok(Token {..})) of Lexer::next: the lexeme runs from start to end_pos().
Lexer_token(lx, start, token_type, literal) ==
    [lx EXCEPT !.tokens =
         Append(@, [token_type |-> token_type, lexeme |-> SubSeq(lx.source, start, lx.i - 1),
                    line |-> lx.line, literal |-> literal])]

\* A last arm of Lexer::next that ends the iteration with the error.
unexpected_character_fatal(lx, ch) ==
    [lx EXCEPT !.errors = Append(@, [line |-> lx.line,
                                     msg |-> "Unexpected character '" \o ch \o "'"]),
               !.i = Len(lx.source) + 1]

\* The last arm of Lexer::next: the character starts no token.
unexpected_character(lx, ch) ==
    [lx EXCEPT !.errors = Append(@, [line |-> lx.line,
                                     msg |-> "Unexpected character '" \o ch \o "'"])]

\* Lexer::next, called until it returns None as lex's partition does: each
\* Some(Ok(token)) is appended to tokens, each Some(Err(error)) to errors.
\* The Err of string is not returned: next goes on to the following item.
RECURSIVE Lexer_next(_)
Lexer_next(lx) ==
    IF lx.status # "Ok" THEN lx
    ELSE IF lx.i > Len(lx.source)
    THEN [lx EXCEPT !.tokens = Append(@, [token_type |-> "Eof", lexeme |-> <<>>,
                                         line |-> lx.line, literal |-> <<>>])]
    ELSE
    LET pos == lx.i
        ch == lx.source[pos]
        l1 == [lx EXCEPT !.i = pos + 1]
        matches(expected) == pos + 1 <= Len(lx.source) /\ lx.source[pos + 1] = expected
        newline == skip_while(lx.source, pos + 1,
                              {lx.source[k] : k \in 1..Len(lx.source)} \ {"\n"})
    IN  CASE ch \in {"(", ")", "{", "}", ",", ".", "+", "-", "*", ";"} ->
                Lexer_next(Lexer_token(l1, pos, PunctuationTable[ch], <<>>))
          [] ch \in {"!", "=", "<", ">"} ->
                IF matches("=")
                THEN Lexer_next(Lexer_token([l1 EXCEPT !.i = pos + 2], pos,
                                            PunctuationTable[ch \o "="], <<>>))
                ELSE Lexer_next(Lexer_token(l1, pos, PunctuationTable[ch], <<>>))
          [] ch = "/" ->
                IF matches("/")
                THEN IF newline > Len(lx.source)
                     THEN [l1 EXCEPT !.i = newline, !.status = "hang"]
                     ELSE Lexer_next([l1 EXCEPT !.i = newline])
                ELSE Lexer_next(Lexer_token(l1, pos, "Slash", <<>>))
          [] ch \in {" ", "\r", "\t"} -> Lexer_next(l1)
          [] ch = "\n" -> Lexer_next([l1 EXCEPT !.line = @ + 1])
          [] ch = "\"" ->
                IF Lexer_string(l1, pos + 1).ok
                THEN Lexer_next(Lexer_token(Lexer_string(l1, pos + 1).lx, pos, "String",
                                            Lexer_string(l1, pos + 1).literal))
                ELSE Lexer_next(Lexer_string(l1, pos + 1).lx)
          [] ch \in Digits ->
                Lexer_next(Lexer_token(Lexer_number(l1, pos).lx, pos, "Number",
                                       Lexer_number(l1, pos).literal))
          [] ch \in Alphas ->
                Lexer_next(Lexer_token(Lexer_identifier(l1, pos).lx, pos,
                                       Lexer_identifier(l1, pos).token_type, <<>>))
          [] OTHER -> Lexer_next(unexpected_character(l1, ch))

\* lexer::lex on the characters of a source, from Lexer::new on: the tokens
\* and the errors, when it returns.
lex_chars(source) ==
    LET lexer == Lexer_next([source |-> source, i |-> 1, line |-> 1, tokens |-> <<>>,
                             errors |-> <<>>, status |-> "Ok"])
    IN  [source |-> source, status |-> lexer.status, tokens |-> lexer.tokens,
         errors |-> lexer.errors]


(***************************************************************************)
(* The AST of statement.rs.                                                *)
(***************************************************************************)
ExprNil == [type |-> "Nil"]

ExprBoolean(b) == [type |-> "Boolean", b |-> b]

ExprString(s) == [type |-> "String", s |-> s]

ExprNumber(n) == [type |-> "Number", n |-> n]

ExprBinary(left, token_type, right) ==
    [type |-> "Binary", left |-> left, token_type |-> token_type, right |-> right]

ExprCall(callee, arguments) == [type |-> "Call", callee |-> callee, arguments |-> arguments]

ExprGet(object, name) == [type |-> "Get", object |-> object, name |-> name]

ExprSet(object, name, value) == [type |-> "Set", object |-> object, name |-> name, value |-> value]

ExprSuper(id, method) == [type |-> "Super", id |-> id, keyword |-> "super", method |-> method]

ExprThis(id) == [type |-> "This", id |-> id, keyword |-> "this"]

ExprGrouping(expression) == [type |-> "Grouping", expression |-> expression]

ExprUnary(token_type, right) == [type |-> "Unary", token_type |-> token_type, right |-> right]

ExprLogical(left, operator, right) ==
    [type |-> "Logical", left |-> left, operator |-> operator, right |-> right]

ExprVariable(id, name) == [type |-> "Variable", id |-> id, name |-> name]

ExprAssign(id, name, value) == [type |-> "Assign", id |-> id, name |-> name, value |-> value]

StmtExpression(expression) == [type |-> "Expression", expression |-> expression]

StmtPrint(expression) == [type |-> "Print", expression |-> expression]

StmtVar(name, initializer) == [type |-> "Var", name |-> name, initializer |-> initializer]

StmtBlock(stmts) == [type |-> "Block", statements |-> stmts]

StmtIf(condition, then_branch, else_branch) ==
    [type |-> "If", condition |-> condition, then_branch |-> then_branch,
     else_branch |-> else_branch]

StmtWhile(condition, body) == [type |-> "While", condition |-> condition, body |-> body]

StmtFunction(name, parameters, body) ==
    [type |-> "Function", name |-> name, parameters |-> parameters, body |-> body]

StmtReturn(value) == [type |-> "Return", value |-> value]

StmtClass(name, superclass, methods) ==
    [type |-> "Class", name |-> name, superclass |-> superclass, methods |-> methods]

(***************************************************************************)
(* The parser.  A parsing function takes the tokens, the position of the   *)
(* token iterator and the value of NEXT_EXPRESSION_ID, and returns a       *)
(* Result together with the new position and counter.                      *)
(***************************************************************************)
POk(v, pos, nid) ==
    [ok |-> TRUE, panic |-> FALSE, v |-> v, line |-> 0, msg |-> "", pos |-> pos, nid |-> nid]

\* LoxError::ParserError(line, msg); line 0 stands for None.
PErr(line, msg, pos, nid) ==
    [ok |-> FALSE, panic |-> FALSE, v |-> ExprNil, line |-> line, msg |-> msg,
     pos |-> pos, nid |-> nid]

\* unreachable!()
PPanic(pos, nid) ==
    [ok |-> FALSE, panic |-> TRUE, v |-> ExprNil, line |-> 0, msg |-> "unreachable", pos |-> pos,
     nid |-> nid]

matches(toks, pos, token_types) == pos <= Len(toks) /\ toks[pos].token_type \in token_types

consume(toks, pos, nid, token_type, error_message) ==
    IF pos <= Len(toks)
    THEN IF toks[pos].token_type = token_type
         THEN POk(ExprNil, pos + 1, nid)
         ELSE PErr(toks[pos].line, error_message, pos + 1, nid)
    ELSE PErr(0, error_message, pos, nid)

identifier_name(toks, pos, nid, kind) ==
    IF pos <= Len(toks)
    THEN IF toks[pos].token_type = "Identifier"
         THEN POk(toks[pos].lexeme, pos + 1, nid)
         ELSE PErr(toks[pos].line, "Expect " \o kind \o " name", pos + 1, nid)
    ELSE PErr(0, "Expect " \o kind \o " name.", pos, nid)

expected_expression(pos, nid) ==
    PErr(0, "Unexpected end of file, expected expression.", pos, nid)

\* self.method(args) on the Parser.  The parsing functions call one another
\* through this one recursive operator, defined after them; it is what keeps
\* the definitions below in the order of the grammar.
RECURSIVE parser(_, _)
RECURSIVE expression(_, _, _), unary(_, _, _), call_loop(_, _), arguments_loop(_, _, _, _)
RECURSIVE multiplication_loop(_, _), addition_loop(_, _), comparison_loop(_, _)
RECURSIVE equality_loop(_, _), and_loop(_, _), or_loop(_, _), assignment(_, _, _)
RECURSIVE block_loop(_, _, _, _), parameters_loop(_, _, _, _), methods_loop(_, _, _, _)
RECURSIVE parse_loop(_, _, _, _, _)

primary(toks, pos, nid) ==
    IF pos > Len(toks) THEN expected_expression(pos, nid)
    ELSE
    LET token == toks[pos]
        tt == token.token_type
    IN  CASE tt = "False" -> POk(ExprBoolean(FALSE), pos + 1, nid)
          [] tt = "True" -> POk(ExprBoolean(TRUE), pos + 1, nid)
          [] tt = "Nil" -> POk(ExprNil, pos + 1, nid)
          [] tt = "Number" -> POk(ExprNumber(token.num), pos + 1, nid)
          [] tt = "String" -> POk(ExprString(token.text), pos + 1, nid)
          [] tt = "LeftParen" ->
                LET e == expression(toks, pos + 1, nid)
                IN  IF ~e.ok THEN e
                    ELSE IF e.pos <= Len(toks)
                    THEN IF toks[e.pos].token_type = "RightParen"
                         THEN POk(ExprGrouping(e.v), e.pos + 1, e.nid)
                         ELSE PErr(toks[e.pos].line,
                                   "Expected ')' but got '" \o toks[e.pos].lexeme \o "'",
                                   e.pos + 1, e.nid)
                    ELSE expected_expression(e.pos, e.nid)
          [] tt = "Identifier" -> POk(ExprVariable(nid, token.lexeme), pos + 1, nid + 1)
          [] tt = "Super" ->
                LET d == consume(toks, pos + 1, nid, "Dot", "Expect '.' after super.")
                IN  IF ~d.ok THEN d
                    ELSE IF d.pos <= Len(toks)
                    THEN IF toks[d.pos].token_type # "Identifier"
                         THEN PErr(0, "Expect superclass method name.", d.pos + 1, d.nid)
                         ELSE POk(ExprSuper(d.nid, toks[d.pos].lexeme), d.pos + 1, d.nid + 1)
                    ELSE PErr(0, "Expect superclass method name.", d.pos, d.nid)
          [] tt = "This" -> POk(ExprThis(nid), pos + 1, nid + 1)
          [] OTHER -> expected_expression(pos + 1, nid)

arguments_loop(toks, pos, nid, arguments) ==
    IF matches(toks, pos, {"Comma"})
    THEN LET a == expression(toks, pos + 1, nid)
         IN  IF ~a.ok THEN a ELSE arguments_loop(toks, a.pos, a.nid, Append(arguments, a.v))
    ELSE POk(arguments, pos, nid)

finish_call(toks, pos, nid, callee) ==
    LET args ==
            IF ~matches(toks, pos, {"RightParen"})
            THEN LET a == expression(toks, pos, nid)
                 IN  IF ~a.ok THEN a ELSE arguments_loop(toks, a.pos, a.nid, <<a.v>>)
            ELSE POk(<<>>, pos, nid)
    IN  IF ~args.ok THEN args
        ELSE LET c == consume(toks, args.pos, args.nid, "RightParen", "Expect ')' after arguments.")
             IN  IF ~c.ok THEN c ELSE POk(ExprCall(callee, args.v), c.pos, c.nid)

\* In the loops of the expression grammar, expr is the result of the parse so
\* far: the loop goes on while it is Ok (`?` returns the Err otherwise).
call_loop(toks, expr) ==
    IF expr.ok
    THEN IF matches(toks, expr.pos, {"LeftParen"})
         THEN call_loop(toks, finish_call(toks, expr.pos + 1, expr.nid, expr.v))
         ELSE IF matches(toks, expr.pos, {"Dot"})
         THEN LET p == expr.pos + 1
              IN  IF p <= Len(toks)
                  THEN IF toks[p].token_type = "Identifier"
                       THEN call_loop(toks, POk(ExprGet(expr.v, toks[p].lexeme), p + 1, expr.nid))
                       ELSE PErr(toks[p].line, "Expect property name after '.'.", p + 1, expr.nid)
                  ELSE PErr(0, "Expect property name after '.'.", p, expr.nid)
         ELSE expr
    ELSE expr

call(toks, pos, nid) == call_loop(toks, primary(toks, pos, nid))

unary(toks, pos, nid) ==
    IF pos > Len(toks) THEN PPanic(pos, nid)
    ELSE IF toks[pos].token_type \in {"Bang", "Minus"}
    THEN LET right == unary(toks, pos + 1, nid)
         IN  IF ~right.ok THEN right
             ELSE POk(ExprUnary(toks[pos].token_type, right.v), right.pos, right.nid)
    ELSE call(toks, pos, nid)

\* expr = Expr::Binary { left: expr, token_type, right: right? }
binary(expr, token_type, right) ==
    IF right.ok THEN POk(ExprBinary(expr.v, token_type, right.v), right.pos, right.nid)
    ELSE right

\* expr = Expr::Logical { left: expr, operator, right: right? }
logical(expr, operator, right) ==
    IF right.ok THEN POk(ExprLogical(expr.v, operator, right.v), right.pos, right.nid)
    ELSE right

multiplication_loop(toks, expr) ==
    IF expr.ok
    THEN IF matches(toks, expr.pos, {"Slash", "Star"})
         THEN multiplication_loop(toks, binary(expr, toks[expr.pos].token_type,
                                               unary(toks, expr.pos + 1, expr.nid)))
         ELSE expr
    ELSE expr

multiplication(toks, pos, nid) == multiplication_loop(toks, unary(toks, pos, nid))

addition_loop(toks, expr) ==
    IF expr.ok
    THEN IF matches(toks, expr.pos, {"Minus", "Plus"})
         THEN addition_loop(toks, binary(expr, toks[expr.pos].token_type,
                                         multiplication(toks, expr.pos + 1, expr.nid)))
         ELSE expr
    ELSE expr

addition(toks, pos, nid) == addition_loop(toks, multiplication(toks, pos, nid))

comparison_loop(toks, expr) ==
    IF expr.ok
    THEN IF matches(toks, expr.pos, {"Greater", "GreaterEqual", "Less", "LessEqual"})
         THEN comparison_loop(toks, binary(expr, toks[expr.pos].token_type,
                                           addition(toks, expr.pos + 1, expr.nid)))
         ELSE expr
    ELSE expr

comparison(toks, pos, nid) == comparison_loop(toks, addition(toks, pos, nid))

\* The token types Parser::equality matches (parser.rs line 335).
EqualityTokens == {"BangEqual", "LessEqual"}

equality_loop(toks, expr) ==
    IF expr.ok
    THEN IF matches(toks, expr.pos, EqualityTokens)
         THEN equality_loop(toks, binary(expr, toks[expr.pos].token_type,
                                         addition(toks, expr.pos + 1, expr.nid)))
         ELSE expr
    ELSE expr

equality(toks, pos, nid) == equality_loop(toks, comparison(toks, pos, nid))

and_loop(toks, expr) ==
    IF expr.ok
    THEN IF matches(toks, expr.pos, {"And"})
         THEN and_loop(toks, logical(expr, "And", equality(toks, expr.pos + 1, expr.nid)))
         ELSE expr
    ELSE expr

and(toks, pos, nid) == and_loop(toks, equality(toks, pos, nid))

or_loop(toks, expr) ==
    IF expr.ok
    THEN IF matches(toks, expr.pos, {"Or"})
         THEN or_loop(toks, logical(expr, "Or", and(toks, expr.pos + 1, expr.nid)))
         ELSE expr
    ELSE expr

or(toks, pos, nid) == or_loop(toks, and(toks, pos, nid))

\* A match on expr whose Assign keeps the id of the Variable it is built from.
assignment_target_reusing_id(expr, value) ==
    IF ~value.ok THEN value
    ELSE IF expr.type = "Variable"
    THEN POk(ExprAssign(expr.id, expr.name, value.v), value.pos, value.nid)
    ELSE IF expr.type = "Get"
    THEN POk(ExprSet(expr.object, expr.name, value.v), value.pos, value.nid)
    ELSE PErr(0, "Invalid assignment target", value.pos, value.nid)

\* The match on expr in assignment, once the value has been parsed.
assignment_target(expr, value) ==
    IF ~value.ok THEN value
    ELSE IF expr.type = "Variable"
    THEN POk(ExprAssign(value.nid, expr.name, value.v), value.pos, value.nid + 1)
    ELSE IF expr.type = "Get"
    THEN POk(ExprSet(expr.object, expr.name, value.v), value.pos, value.nid)
    ELSE PErr(0, "Invalid assignment target", value.pos, value.nid)

\* assignment, after `let expr = self.or()?`.
assignment_rest(toks, expr) ==
    IF expr.ok
    THEN IF matches(toks, expr.pos, {"Equal"})
         THEN assignment_target(expr.v, assignment(toks, expr.pos + 1, expr.nid))
         ELSE expr
    ELSE expr

assignment(toks, pos, nid) == assignment_rest(toks, or(toks, pos, nid))

expression(toks, pos, nid) == assignment(toks, pos, nid)

expression_statement(toks, pos, nid) ==
    LET e == parser("expression", <<toks, pos, nid>>)
    IN  IF ~e.ok THEN e
        ELSE LET c == consume(toks, e.pos, e.nid, "Semicolon", "Expect ';' after expression.")
             IN  IF ~c.ok THEN c ELSE POk(StmtExpression(e.v), c.pos, c.nid)

var_declaration(toks, pos, nid) ==
    LET v == consume(toks, pos, nid, "Var", "Var declarations begin with 'var'.")
    IN  IF ~v.ok THEN v
        ELSE IF v.pos <= Len(toks)
        THEN IF toks[v.pos].token_type = "Identifier"
             THEN LET name == toks[v.pos].lexeme
                      init == IF matches(toks, v.pos + 1, {"Equal"})
                              THEN LET e == parser("expression", <<toks, v.pos + 2, v.nid>>)
                                   IN  IF ~e.ok THEN e ELSE POk(Some(e.v), e.pos, e.nid)
                              ELSE POk(None, v.pos + 1, v.nid)
                  IN  IF ~init.ok THEN init
                      ELSE LET c == consume(toks, init.pos, init.nid, "Semicolon",
                                            "Expect ';' after expression.")
                           IN  IF ~c.ok THEN c ELSE POk(StmtVar(name, init.v), c.pos, c.nid)
             ELSE PErr(toks[v.pos].line, "Expect variable name after 'var'.", v.pos + 1, v.nid)
        ELSE PErr(0, "Expect variable name after 'var'.", v.pos, v.nid)

print_statement(toks, pos, nid) ==
    LET p == consume(toks, pos, nid, "Print", "Print statements begin with 'print'.")
    IN  IF ~p.ok THEN p
        ELSE LET e == parser("expression", <<toks, p.pos, p.nid>>)
             IN  IF ~e.ok THEN e
                 ELSE LET c == consume(toks, e.pos, e.nid, "Semicolon", "Expect ';' after value.")
                      IN  IF ~c.ok THEN c ELSE POk(StmtPrint(e.v), c.pos, c.nid)

block_loop(toks, pos, nid, stmts) ==
    IF ~matches(toks, pos, {"RightBrace"})
    THEN LET s == parser("statement", <<toks, pos, nid>>)
         IN  IF ~s.ok THEN s ELSE block_loop(toks, s.pos, s.nid, Append(stmts, s.v))
    ELSE POk(stmts, pos, nid)

block(toks, pos, nid) ==
    LET b == consume(toks, pos, nid, "LeftBrace", "Blocks begin with '{'.")
    IN  IF ~b.ok THEN b
        ELSE LET stmts == parser("block_loop", <<toks, b.pos, b.nid, <<>>>>)
             IN  IF ~stmts.ok THEN stmts
                 ELSE LET c == consume(toks, stmts.pos, stmts.nid, "RightBrace",
                                       "Expect '}' after block.")
                      IN  IF ~c.ok THEN c ELSE POk(StmtBlock(stmts.v), c.pos, c.nid)

if_statement(toks, pos, nid) ==
    LET i == consume(toks, pos, nid, "If", "If statements begin with 'if'.")
        l == consume(toks, i.pos, i.nid, "LeftParen", "Expect '(' after 'if'.")
    IN  IF ~i.ok THEN i
        ELSE IF ~l.ok THEN l
        ELSE LET condition == parser("expression", <<toks, l.pos, l.nid>>)
             IN  IF ~condition.ok THEN condition
                 ELSE LET r == consume(toks, condition.pos, condition.nid, "RightParen",
                                       "Expect ')' after if condition.")
                      IN  IF ~r.ok THEN r
                          ELSE LET then_branch == parser("statement", <<toks, r.pos, r.nid>>)
                               IN  IF ~then_branch.ok THEN then_branch
                                   ELSE IF matches(toks, then_branch.pos, {"Else"})
                                   THEN LET else_branch ==
                                                parser("statement", <<toks, then_branch.pos + 1,
                                                          then_branch.nid>>)
                                        IN  IF ~else_branch.ok THEN else_branch
                                            ELSE POk(StmtIf(condition.v, then_branch.v,
                                                            Some(else_branch.v)),
                                                     else_branch.pos, else_branch.nid)
                                   ELSE POk(StmtIf(condition.v, then_branch.v, None),
                                            then_branch.pos, then_branch.nid)

while_statement(toks, pos, nid) ==
    LET w == consume(toks, pos, nid, "While", "While loops begin with 'while'.")
        l == consume(toks, w.pos, w.nid, "LeftParen", "Expect '(' after 'while'.")
    IN  IF ~w.ok THEN w
        ELSE IF ~l.ok THEN l
        ELSE LET condition == parser("expression", <<toks, l.pos, l.nid>>)
             IN  IF ~condition.ok THEN condition
                 ELSE LET r == consume(toks, condition.pos, condition.nid, "RightParen",
                                       "Expect ')' after while condition.")
                      IN  IF ~r.ok THEN r
                          ELSE LET body == parser("statement", <<toks, r.pos, r.nid>>)
                               IN  IF ~body.ok THEN body
                                   ELSE POk(StmtWhile(condition.v, body.v), body.pos, body.nid)

\* let initializer = ... in for_statement.
for_initializer(toks, pos, nid) ==
    IF matches(toks, pos, {"Semicolon"}) THEN POk(None, pos + 1, nid)
    ELSE LET s == IF matches(toks, pos, {"Var"})
                  THEN parser("var_declaration", <<toks, pos, nid>>)
                  ELSE parser("expression_statement", <<toks, pos, nid>>)
         IN  IF ~s.ok THEN s ELSE POk(Some(s.v), s.pos, s.nid)

\* let condition = ... in for_statement.
for_condition(toks, pos, nid) ==
    IF matches(toks, pos, {"Semicolon"})
    THEN POk(ExprBoolean(TRUE), pos, nid)
    ELSE parser("expression", <<toks, pos, nid>>)

\* let increment = ... in for_statement.
for_increment(toks, pos, nid) ==
    IF matches(toks, pos, {"RightParen"}) THEN POk(None, pos, nid)
    ELSE LET e == parser("expression", <<toks, pos, nid>>)
         IN  IF ~e.ok THEN e ELSE POk(Some(e.v), e.pos, e.nid)

\* A loop whose increment runs before the body in every iteration.
for_desugar_increment_first(initializer, condition, increment, body) ==
    LET body1 == IF IsSome(increment)
                 THEN StmtBlock(<<StmtExpression(increment[1]), body>>)
                 ELSE body
        body2 == StmtWhile(condition, body1)
    IN  IF IsSome(initializer) THEN StmtBlock(<<initializer[1], body2>>) ELSE body2

\* The while loop for_statement builds from the clauses and the body.
for_desugar(initializer, condition, increment, body) ==
    LET body1 == IF IsSome(increment)
                 THEN StmtBlock(<<body, StmtExpression(increment[1])>>)
                 ELSE body
        body2 == StmtWhile(condition, body1)
    IN  IF IsSome(initializer) THEN StmtBlock(<<initializer[1], body2>>) ELSE body2

for_statement(toks, pos, nid) ==
    LET f == consume(toks, pos, nid, "For", "For loops begin with 'for'.")
        l == consume(toks, f.pos, f.nid, "LeftParen", "Expect '(' after 'for'.")
    IN  IF ~f.ok THEN f
        ELSE IF ~l.ok THEN l
        ELSE
        LET initializer == for_initializer(toks, l.pos, l.nid)
        IN  IF ~initializer.ok THEN initializer
            ELSE
            LET condition == for_condition(toks, initializer.pos, initializer.nid)
            IN  IF ~condition.ok THEN condition
                ELSE
                LET c1 == consume(toks, condition.pos, condition.nid, "Semicolon",
                                  "Expect ';' after loop condition.")
                IN  IF ~c1.ok THEN c1
                    ELSE
                    LET increment == for_increment(toks, c1.pos, c1.nid)
                    IN  IF ~increment.ok THEN increment
                        ELSE
                        LET c2 == consume(toks, increment.pos, increment.nid, "RightParen",
                                          "Expect ')' after for clauses.")
                        IN  IF ~c2.ok THEN c2
                            ELSE
                            LET body == parser("statement", <<toks, c2.pos, c2.nid>>)
                            IN  IF ~body.ok THEN body
                                ELSE POk(for_desugar(initializer.v, condition.v,
                                                     increment.v, body.v),
                                         body.pos, body.nid)

parameters_loop(toks, pos, nid, parameters) ==
    IF ~matches(toks, pos, {"RightParen"})
    THEN LET n == identifier_name(toks, pos, nid, "parameter")
         IN  IF ~n.ok THEN n
             ELSE parameters_loop(toks, IF matches(toks, n.pos, {"Comma"}) THEN n.pos + 1 ELSE n.pos, n.nid, Append(parameters, n.v))
    ELSE POk(parameters, pos, nid)

function(toks, pos, nid) ==
    LET name == identifier_name(toks, pos, nid, "function")
    IN  IF ~name.ok THEN name
        ELSE
        LET l == consume(toks, name.pos, name.nid, "LeftParen", "Expect '(' after function name")
        IN  IF ~l.ok THEN l
            ELSE
            LET parameters == parser("parameters_loop", <<toks, l.pos, l.nid, <<>>>>)
            IN  IF ~parameters.ok THEN parameters
                ELSE
                LET r == consume(toks, parameters.pos, parameters.nid, "RightParen",
                                 "Expect ')' after parameters.")
                IN  IF ~r.ok THEN r
                    ELSE LET b == parser("block", <<toks, r.pos, r.nid>>)
                         IN  IF ~b.ok THEN b
                             ELSE POk(StmtFunction(name.v, parameters.v, b.v.statements),
                                      b.pos, b.nid)

return_statement(toks, pos, nid) ==
    LET r == consume(toks, pos, nid, "Return", "Return statements begin with 'return'")
    IN  IF ~r.ok THEN r
        ELSE LET value == IF matches(toks, r.pos, {"Semicolon"}) THEN POk(None, r.pos, r.nid)
                          ELSE LET e == parser("expression", <<toks, r.pos, r.nid>>)
                               IN  IF ~e.ok THEN e ELSE POk(Some(e.v), e.pos, e.nid)
             IN  IF ~value.ok THEN value
                 ELSE LET c == consume(toks, value.pos, value.nid, "Semicolon",
                                       "Expect ';' after return value.")
                      IN  IF ~c.ok THEN c ELSE POk(StmtReturn(value.v), c.pos, c.nid)

methods_loop(toks, pos, nid, methods) ==
    IF ~matches(toks, pos, {"RightBrace"})
    THEN LET m == parser("function", <<toks, pos, nid>>)
         IN  IF ~m.ok THEN m ELSE methods_loop(toks, m.pos, m.nid, Append(methods, m.v))
    ELSE POk(methods, pos, nid)

\* let superclass = ... in class.
class_superclass(toks, pos, nid) ==
    IF matches(toks, pos, {"Less"})
    THEN LET s == identifier_name(toks, pos + 1, nid, "class")
         IN  IF ~s.ok THEN s
             ELSE POk(Some(ExprVariable(s.nid, s.v)), s.pos, s.nid + 1)
    ELSE POk(None, pos, nid)

class(toks, pos, nid) ==
    LET c == consume(toks, pos, nid, "Class", "Classes begin with 'class'")
    IN  IF ~c.ok THEN c
        ELSE
        LET name == identifier_name(toks, c.pos, c.nid, "class")
        IN  IF ~name.ok THEN name
            ELSE
            LET superclass == class_superclass(toks, name.pos, name.nid)
            IN  IF ~superclass.ok THEN superclass
                ELSE
                LET l == consume(toks, superclass.pos, superclass.nid, "LeftBrace",
                                 "Expect '{' before class body")
                IN  IF ~l.ok THEN l
                    ELSE
                    LET methods == parser("methods_loop", <<toks, l.pos, l.nid, <<>>>>)
                    IN  IF ~methods.ok THEN methods
                        ELSE
                        LET r == consume(toks, methods.pos, methods.nid, "RightBrace",
                                         "Expect '}' after class body")
                        IN  IF ~r.ok THEN r
                            ELSE POk(StmtClass(name.v, superclass.v, methods.v), r.pos, r.nid)

statement(toks, pos, nid) ==
    IF pos > Len(toks) THEN PPanic(pos, nid)
    ELSE LET tt == toks[pos].token_type
         IN  CASE tt = "Print" -> print_statement(toks, pos, nid)
               [] tt = "Var" -> var_declaration(toks, pos, nid)
               [] tt = "LeftBrace" -> block(toks, pos, nid)
               [] tt = "If" -> if_statement(toks, pos, nid)
               [] tt = "While" -> while_statement(toks, pos, nid)
               [] tt = "For" -> for_statement(toks, pos, nid)
               [] tt = "Fun" -> function(toks, pos + 1, nid)
               [] tt = "Class" -> class(toks, pos, nid)
               [] tt = "Return" -> return_statement(toks, pos, nid)
               [] OTHER -> expression_statement(toks, pos, nid)

\* Parser as Iterator, partitioned by parse: the statements and the errors, in order.
parse_loop(toks, pos, nid, stmts, errors) ==
    IF pos > Len(toks) \/ toks[pos].token_type = "Eof"
    THEN [statements |-> stmts, errors |-> errors, nid |-> nid, panic |-> FALSE]
    ELSE LET s == parser("statement", <<toks, pos, nid>>)
         IN  IF s.panic
             THEN [statements |-> stmts, errors |-> errors, nid |-> s.nid, panic |-> TRUE]
             ELSE IF s.ok
             THEN parse_loop(toks, s.pos, s.nid, Append(stmts, s.v), errors)
             ELSE parse_loop(toks, s.pos, s.nid, stmts, Append(errors, [line |-> s.line, msg |-> s.msg]))

parser(method, args) ==
    CASE method = "statement" -> statement(args[1], args[2], args[3])
      [] method = "expression" -> expression(args[1], args[2], args[3])
      [] method = "block" -> block(args[1], args[2], args[3])
      [] method = "block_loop" -> block_loop(args[1], args[2], args[3], args[4])
      [] method = "function" -> function(args[1], args[2], args[3])
      [] method = "parameters_loop" -> parameters_loop(args[1], args[2], args[3], args[4])
      [] method = "methods_loop" -> methods_loop(args[1], args[2], args[3], args[4])
      [] method = "var_declaration" -> var_declaration(args[1], args[2], args[3])
      [] method = "expression_statement" -> expression_statement(args[1], args[2], args[3])
      [] method = "parse_loop" -> parse_loop(args[1], args[2], args[3], args[4], args[5])

parse(toks, nid) == parser("parse_loop", <<toks, 1, nid, <<>>, <<>>>>)


(***************************************************************************)
(* The resolver.  A Resolver is a record of its four fields and err, the   *)
(* ResolverError its functions returned ("" while they return Ok).         *)
(***************************************************************************)
\* A resolver that starts as if inside a class with a superclass.
\* A Resolver that starts as if inside a function body.
Resolver_new_in_function ==
    [scopes |-> <<>>, expr_id_to_depth |-> EmptyMap, current_function |-> "Function",
     current_class |-> "None", err |-> ""]

Resolver_new_in_class ==
    [scopes |-> <<>>, expr_id_to_depth |-> EmptyMap, current_function |-> "None",
     current_class |-> "SubClass", err |-> ""]

Resolver_new ==
    [scopes |-> <<>>, expr_id_to_depth |-> EmptyMap, current_function |-> "None",
     current_class |-> "None", err |-> ""]

ResolverError(r, msg) == [r EXCEPT !.err = msg]

begin_scope(r) == [r EXCEPT !.scopes = Append(r.scopes, EmptyMap)]

end_scope(r) == [r EXCEPT !.scopes = SubSeq(r.scopes, 1, Len(r.scopes) - 1)]

declare(r, name) ==
    IF Len(r.scopes) = 0 THEN r
    ELSE [r EXCEPT !.scopes[Len(r.scopes)] = MapInsert(@, name, FALSE)]

define(r, name) ==
    IF Len(r.scopes) = 0 THEN r
    ELSE [r EXCEPT !.scopes[Len(r.scopes)] = MapInsert(@, name, TRUE)]

\* The scopes from the innermost outwards that contain name, as distances.
DepthsOf(scopes, name) ==
    {d \in 0..(Len(scopes) - 1) : name \in DOMAIN scopes[Len(scopes) - d]}

Min(S) == CHOOSE x \in S : \A y \in S : x <= y

resolve_local(r, expr_id, name) ==
    IF DepthsOf(r.scopes, name) = {} THEN r
    ELSE [r EXCEPT !.expr_id_to_depth = MapInsert(@, expr_id, Min(DepthsOf(r.scopes, name)))]

\* self.method(args) on the Resolver; see parser.
RECURSIVE resolver(_, _)
resolve_expressions(r, exprs, i) ==
    IF i > Len(exprs) \/ r.err # "" THEN r
    ELSE resolver("resolve_expressions",
                  <<resolver("resolve_expression", <<r, exprs[i]>>), exprs, i + 1>>)

resolve_expression(r, expr) ==
    IF r.err # "" THEN r
    ELSE
    CASE expr.type = "Variable" ->
            IF Len(r.scopes) > 0
            THEN LET scope == r.scopes[Len(r.scopes)]
                 IN  IF expr.name \in DOMAIN scope /\ scope[expr.name] = FALSE
                     THEN ResolverError(r, "Cannot read local variable in ints own initializer")
                     ELSE resolve_local(r, expr.id, expr.name)
            ELSE r
      [] expr.type = "This" ->
            IF r.current_class = "None"
            THEN ResolverError(r, "Cannot use 'this' outside of a class.")
            ELSE resolve_local(r, expr.id, expr.keyword)
      [] expr.type = "Super" ->
            IF r.current_class = "None"
            THEN ResolverError(r, "Cannot use 'super' outside of a class.")
            ELSE IF r.current_class # "SubClass"
            THEN ResolverError(r, "Cannot use 'super' in a class with no superclass.")
            ELSE resolve_local(r, expr.id, expr.keyword)
      [] expr.type = "Assign" ->
            LET r1 == resolver("resolve_expression", <<r, expr.value>>)
            IN  IF r1.err # "" THEN r1 ELSE resolve_local(r1, expr.id, expr.name)
      [] expr.type = "Binary" ->
            resolver("resolve_expression", <<resolver("resolve_expression", <<r, expr.left>>),
                                             expr.right>>)
      [] expr.type = "Call" ->
            resolver("resolve_expressions", <<resolver("resolve_expression", <<r, expr.callee>>),
                                              expr.arguments, 1>>)
      [] expr.type = "Get" -> resolver("resolve_expression", <<r, expr.object>>)
      [] expr.type = "Set" ->
            resolver("resolve_expression", <<resolver("resolve_expression", <<r, expr.object>>),
                                             expr.value>>)
      [] expr.type = "Grouping" -> resolver("resolve_expression", <<r, expr.expression>>)
      [] expr.type = "Logical" ->
            resolver("resolve_expression", <<resolver("resolve_expression", <<r, expr.left>>),
                                             expr.right>>)
      [] expr.type = "Unary" -> resolver("resolve_expression", <<r, expr.right>>)
      [] OTHER -> r

resolve_statements(r, stmts, i) ==
    IF i > Len(stmts) \/ r.err # "" THEN r
    ELSE resolver("resolve_statements",
                  <<resolver("resolve_statement", <<r, stmts[i]>>), stmts, i + 1>>)

declare_parameters(r, parameters, i) ==
    IF i > Len(parameters) THEN r
    ELSE resolver("declare_parameters", <<define(declare(r, parameters[i]), parameters[i]),
                                          parameters, i + 1>>)

\* A resolve_function that leaves current_function as the body had it.
resolve_function_keeping_kind(r, name, parameters, body, function_type) ==
    LET r1 == define(declare(r, name), name)
        r2 == begin_scope([r1 EXCEPT !.current_function = function_type])
        r3 == resolver("declare_parameters", <<r2, parameters, 1>>)
        r4 == resolver("resolve_statements", <<r3, body, 1>>)
    IN  IF r4.err # "" THEN r4 ELSE end_scope(r4)

resolve_function(r, name, parameters, body, function_type) ==
    LET r1 == define(declare(r, name), name)
        enclosing_function == r1.current_function
        r2 == begin_scope([r1 EXCEPT !.current_function = function_type])
        r3 == resolver("declare_parameters", <<r2, parameters, 1>>)
        r4 == resolver("resolve_statements", <<r3, body, 1>>)
    IN  IF r4.err # "" THEN r4
        ELSE [end_scope(r4) EXCEPT !.current_function = enclosing_function]

\* A test that finds no class inheriting from itself.
inherits_from_nothing(name, superclass) == FALSE

\* The test of the Class arm of resolve_statement: the superclass is the
\* Variable with the name of the class.
inherits_from_itself(name, superclass) ==
    superclass.type = "Variable" /\ name = superclass.name

resolve_methods(r, methods, i) ==
    IF i > Len(methods) \/ r.err # "" THEN r
    ELSE LET m == methods[i]
             function_type == IF m.name = "init" THEN "Initializer" ELSE "Method"
         IN  resolver("resolve_methods", <<resolver("resolve_function", <<r, m.name, m.parameters,
                                                                          m.body, function_type>>),
                             methods, i + 1>>)

resolve_statement(r, stmt) ==
    IF r.err # "" THEN r
    ELSE
    CASE stmt.type = "Block" ->
            LET r1 == resolver("resolve_statements", <<begin_scope(r), stmt.statements, 1>>)
            IN  IF r1.err # "" THEN r1 ELSE end_scope(r1)
      [] stmt.type = "Var" ->
            LET r1 == define(declare(r, stmt.name), stmt.name)
            IN  IF IsSome(stmt.initializer)
                THEN resolver("resolve_expression", <<r1, stmt.initializer[1]>>)
                ELSE r1
      [] stmt.type = "Function" ->
            resolver("resolve_function", <<r, stmt.name, stmt.parameters, stmt.body, "Function">>)
      [] stmt.type = "Expression" -> resolver("resolve_expression", <<r, stmt.expression>>)
      [] stmt.type = "If" ->
            LET r1 == resolver("resolve_statement",
                               <<resolver("resolve_expression", <<r, stmt.condition>>),
                                 stmt.then_branch>>)
            IN  IF IsSome(stmt.else_branch)
                THEN resolver("resolve_statement", <<r1, stmt.else_branch[1]>>)
                ELSE r1
      [] stmt.type = "Print" -> resolver("resolve_expression", <<r, stmt.expression>>)
      [] stmt.type = "Return" ->
            IF r.current_function = "None"
            THEN ResolverError(r, "Cannot return from top-level code.")
            ELSE IF IsSome(stmt.value)
            THEN IF r.current_function = "Initializer"
                 THEN ResolverError(r, "Cannot return a value from an initializer.")
                 ELSE resolver("resolve_expression", <<r, stmt.value[1]>>)
            ELSE r
      [] stmt.type = "While" ->
            resolver("resolve_statement", <<resolver("resolve_expression", <<r, stmt.condition>>),
                                            stmt.body>>)
      [] stmt.type = "Class" ->
            LET enclosing_class == r.current_class
                r1 == define(declare([r EXCEPT !.current_class = "Class"], stmt.name), stmt.name)
                r2 == IF IsSome(stmt.superclass)
                      THEN IF inherits_from_itself(stmt.name, stmt.superclass[1])
                           THEN ResolverError(r1, "A class cannot inherit from itself.")
                           ELSE LET r1a == resolver("resolve_expression", <<
                                               [r1 EXCEPT !.current_class = "SubClass"],
                                               stmt.superclass[1]>>)
                                IN  IF r1a.err # "" THEN r1a
                                    ELSE LET r1b == begin_scope(r1a)
                                         IN  [r1b EXCEPT !.scopes[Len(r1b.scopes)] =
                                                             MapInsert(@, "super", TRUE)]
                      ELSE r1
                r3 == IF r2.err # "" THEN r2
                      ELSE LET r2a == begin_scope(r2)
                           IN  [r2a EXCEPT !.scopes[Len(r2a.scopes)] = MapInsert(@, "this", TRUE)]
                r4 == resolver("resolve_methods", <<r3, stmt.methods, 1>>)
            IN  IF r4.err # "" THEN r4
                ELSE LET r5 == end_scope(r4)
                         r6 == IF IsSome(stmt.superclass) THEN end_scope(r5) ELSE r5
                     IN  [r6 EXCEPT !.current_class = enclosing_class]
      [] OTHER -> r

resolver(method, args) ==
    CASE method = "resolve_expression" -> resolve_expression(args[1], args[2])
      [] method = "resolve_expressions" -> resolve_expressions(args[1], args[2], args[3])
      [] method = "resolve_statement" -> resolve_statement(args[1], args[2])
      [] method = "resolve_statements" -> resolve_statements(args[1], args[2], args[3])
      [] method = "resolve_function" ->
            resolve_function(args[1], args[2], args[3], args[4], args[5])
      [] method = "resolve_methods" -> resolve_methods(args[1], args[2], args[3])
      [] method = "declare_parameters" -> declare_parameters(args[1], args[2], args[3])

\* resolver::resolve: Ok(expr_id_to_depth) or Err(ResolverError(err)).
resolve(stmts) == resolver("resolve_statements", <<Resolver_new, stmts, 1>>)


(***************************************************************************)
(* Runtime objects (object.rs).  A value is a record of its tag t and its  *)
(* payload: n for a number, a boolean (0 or 1) or the address of a         *)
(* function, class or instance, s for a string.  What an Rc points to      *)
(* lives in the heap sequences of the interpreter state, so that sharing   *)
(* is sharing of an address.                                               *)
(***************************************************************************)
ObjectNil == [t |-> "Nil", n |-> 0, s |-> ""]

ObjectBoolean(b) == [t |-> "Boolean", n |-> IF b THEN 1 ELSE 0, s |-> ""]

ObjectNumber(n) == [t |-> "Number", n |-> n, s |-> ""]

ObjectString(s) == [t |-> "String", n |-> 0, s |-> s]

\* Object::Function(Rc<dyn Function>): s tells the implementor, Clock or LoxFunction.
ObjectFunction(f) == [t |-> "Function", n |-> f, s |-> "LoxFunction"]

ObjectClock == [t |-> "Function", n |-> 0, s |-> "Clock"]

ObjectClass(c) == [t |-> "Class", n |-> c, s |-> ""]

ObjectInstance(i) == [t |-> "Instance", n |-> i, s |-> ""]

\* impl PartialEq for Object
Object_eq(a, b) ==
    CASE a.t = "Boolean" /\ b.t = "Boolean" -> a.n = b.n
      [] a.t = "Nil" /\ b.t = "Nil" -> TRUE
      [] a.t = "Number" /\ b.t = "Number" -> a.n = b.n
      [] a.t = "String" /\ b.t = "String" -> a.s = b.s
      [] OTHER -> FALSE

is_truthy(object) ==
    CASE object.t = "Nil" -> FALSE
      [] object.t = "Boolean" -> object.n = 1
      [] OTHER -> TRUE

\* impl Display for Object
Display(st, object) ==
    CASE object.t = "Nil" -> "nil"
      [] object.t = "Number" -> ToString(object.n)
      [] object.t = "Boolean" -> IF object.n = 1 THEN "true" ELSE "false"
      [] object.t = "String" -> object.s
      [] object.t = "Function" -> "<lox fn>"
      [] object.t = "Class" -> st.classes[object.n].name
      [] OTHER -> st.classes[st.instances[object.n].class].name \o " instance"

(***************************************************************************)
(* The interpreter state: the fields of Interpreter, the heap (envs,       *)
(* functions, classes, instances: what the Rc<RefCell<_>> point to), the   *)
(* value clock() reads, the lines printed, and the record of what the      *)
(* current interpret call did (accesses, blocks, logicals, calls).         *)
(***************************************************************************)
Globals == 1

Interpreter_new ==
    [scopes |-> EmptyMap,
     globals |-> Globals,
     environment |-> Globals,
     envs |-> <<[enclosing |-> 0, values |-> MapInsert(EmptyMap, "clock", ObjectClock)]>>,
     functions |-> <<>>,
     classes |-> <<>>,
     instances |-> <<>>,
     now |-> 0,
     out |-> <<>>,
     accesses |-> {},
     blocks |-> {},
     logicals |-> {},
     calls |-> {}]

\* Result<Rc<Object>>, with the state the call left behind.
ROk(st, value) == [st |-> st, status |-> "Ok", value |-> value, err |-> ""]

RErr(st, kind, msg) == [st |-> st, status |-> kind, value |-> ObjectNil, err |-> msg]

RReturn(st, value) == [st |-> st, status |-> "Return", value |-> value, err |-> ""]

RPanic(st, msg) == [st |-> st, status |-> "panic", value |-> ObjectNil, err |-> msg]

\* A scope that is not new: the enclosing environment itself.
Environment_with_enclosing_shared(st, environment) ==
    [st |-> st, env |-> environment]

\* Environment::with_enclosing behind a new Rc: the state and the new address.
Environment_with_enclosing(st, environment) ==
    [st |-> [st EXCEPT !.envs = Append(@, [enclosing |-> environment, values |-> EmptyMap])],
     env |-> Len(st.envs) + 1]

Environment_define(st, env, name, value) ==
    [st EXCEPT !.envs[env].values = MapInsert(@, name, value)]

get_here(st, env, name) ==
    IF name \in DOMAIN st.envs[env].values
    THEN ROk(st, st.envs[env].values[name])
    ELSE RErr(st, "EnvironmentError", "Undefined variable '" \o name \o "'.")

RECURSIVE Environment_get(_, _, _, _)
Environment_get(st, env, depth, name) ==
    IF depth = 0 THEN get_here(st, env, name)
    ELSE IF st.envs[env].enclosing = 0 THEN RPanic(st, "unwrap on None")
    ELSE Environment_get(st, st.envs[env].enclosing, depth - 1, name)

\* An assign_here that inserts the name when it is not there, as define does.
assign_here_defining(st, env, name, value) ==
    ROk([st EXCEPT !.envs[env].values = MapInsert(@, name, value)], ObjectNil)

assign_here(st, env, name, value) ==
    IF name \in DOMAIN st.envs[env].values
    THEN ROk([st EXCEPT !.envs[env].values = MapInsert(@, name, value)], ObjectNil)
    ELSE RErr(st, "EnvironmentError", "Undefined variable '" \o name \o "'.")

RECURSIVE Environment_assign(_, _, _, _, _)
Environment_assign(st, env, depth, name, value) ==
    IF depth = 0 THEN assign_here(st, env, name, value)
    ELSE IF st.envs[env].enclosing = 0 THEN RPanic(st, "unwrap on None")
    ELSE Environment_assign(st, st.envs[env].enclosing, depth - 1, name, value)

\* Interpreter::get_locals_depth
get_locals_depth(st, expression_id) ==
    IF expression_id \in DOMAIN st.scopes THEN Some(st.scopes[expression_id]) ELSE None

\* A function that captures a copy of its defining environment.
LoxFunction_new_by_value(st, parameters, body, closure, is_initializer) ==
    LET st1 == [st EXCEPT !.envs = Append(@, st.envs[closure])]
    IN  [st |-> [st1 EXCEPT !.functions =
                     Append(@, [parameters |-> parameters, body |-> body,
                                closure |-> Len(st1.envs),
                                is_initializer |-> is_initializer])],
         f |-> Len(st.functions) + 1]

\* LoxFunction::new behind a new Rc: the state and the new address.
LoxFunction_new(st, parameters, body, closure, is_initializer) ==
    [st |-> [st EXCEPT !.functions =
                 Append(@, [parameters |-> parameters, body |-> body, closure |-> closure,
                            is_initializer |-> is_initializer])],
     f |-> Len(st.functions) + 1]

\* A bind that defines `this` in the closure of the method itself and hands
\* out the method.
bind_in_place(st, f, instance) ==
    [st |-> Environment_define(st, st.functions[f].closure, "this", instance), f |-> f]

\* LoxFunction::bind
bind(st, f, instance) ==
    LET e == Environment_with_enclosing(st, st.functions[f].closure)
        st1 == Environment_define(e.st, e.env, "this", instance)
    IN  LoxFunction_new(st1, st.functions[f].parameters, st.functions[f].body, e.env,
                        st.functions[f].is_initializer)

\* LoxClass::find_method: the address of the method, 0 for None.
RECURSIVE find_method(_, _, _)
find_method(st, klass, name) ==
    IF name \in DOMAIN st.classes[klass].methods THEN st.classes[klass].methods[name]
    ELSE IF st.classes[klass].superclass # 0
    THEN find_method(st, st.classes[klass].superclass, name)
    ELSE 0

\* A get that looks for a method before it looks at the fields.
LoxInstance_get_method_first(st, wrapping_object, name) ==
    IF wrapping_object.t = "Instance"
    THEN LET instance == st.instances[wrapping_object.n]
         IN  IF find_method(st, instance.class, name) # 0
             THEN LET b == bind(st, find_method(st, instance.class, name), wrapping_object)
                  IN  ROk(b.st, ObjectFunction(b.f))
             ELSE IF name \in DOMAIN instance.fields THEN ROk(st, instance.fields[name])
             ELSE RErr(st, "InterpreterError", "Undefined property " \o name \o ".")
    ELSE RErr(st, "InterpreterError", "Only instances have fields.")

\* LoxInstance::get
LoxInstance_get(st, wrapping_object, name) ==
    IF wrapping_object.t = "Instance"
    THEN LET instance == st.instances[wrapping_object.n]
         IN  IF name \in DOMAIN instance.fields THEN ROk(st, instance.fields[name])
             ELSE IF find_method(st, instance.class, name) # 0
             THEN LET b == bind(st, find_method(st, instance.class, name), wrapping_object)
                  IN  ROk(b.st, ObjectFunction(b.f))
             ELSE RErr(st, "InterpreterError", "Undefined property " \o name \o ".")
    ELSE RErr(st, "InterpreterError", "Only instances have fields.")

\* A set that leaves the instance with the written field alone.
LoxInstance_set_only(st, instance, name, value) ==
    [st EXCEPT !.instances[instance].fields = MapInsert(EmptyMap, name, value)]

\* LoxInstance::set
LoxInstance_set(st, instance, name, value) ==
    [st EXCEPT !.instances[instance].fields = MapInsert(@, name, value)]

cast_operands_to_numbers(st, left, right) ==
    IF left.t = "Number" /\ right.t = "Number" THEN ROk(st, ObjectNil)
    ELSE RErr(st, "InterpreterError",
              "Expected both operands to be numbers, but got '" \o Display(st, left)
                  \o "' and '" \o Display(st, right) \o "'")

cast_operands_to_strings(st, left, right) ==
    IF left.t = "String" /\ right.t = "String" THEN ROk(st, ObjectNil)
    ELSE RErr(st, "InterpreterError",
              "Expected both operands to be strings, but got '" \o Display(st, left)
                  \o "' and '" \o Display(st, right) \o "'")


(***************************************************************************)
(* The record of the current interpret call: the set of what its variable  *)
(* accesses, execute_block calls, Logical expressions and calls did.       *)
(***************************************************************************)
\* depth is -1 when the resolver gave the expression no depth.
LogAccess(st, expr, depth, status) ==
    [st EXCEPT !.accesses =
         @ \cup {[type |-> expr.type, id |-> expr.id,
                  depth |-> IF IsSome(depth) THEN depth[1] ELSE -1, status |-> status]}]

LogBlock(st, previous, status) ==
    [st EXCEPT !.blocks =
         @ \cup {[previous |-> previous, after |-> st.environment, status |-> status]}]

LogLogical(st, operator, left, right_evaluated, r) ==
    [st EXCEPT !.logicals =
         @ \cup {[operator |-> operator, left |-> left, right_evaluated |-> right_evaluated,
                  status |-> r.status, value |-> r.value]}]

LogCall(st, kind, arity, nargs, is_initializer, this, r) ==
    [st EXCEPT !.calls =
         @ \cup {[kind |-> kind, arity |-> arity, nargs |-> nargs,
                  is_initializer |-> is_initializer, this |-> this,
                  status |-> r.status, err |-> r.err, value |-> r.value]}]

WithState(r, st) == [r EXCEPT !.st = st]

(***************************************************************************)
(* Interpreter::evaluate and Interpreter::execute.                         *)
(***************************************************************************)
\* self.method(args) on the Interpreter, and LoxFunction::call, which is
\* handed the interpreter and calls back into execute_block; see parser.
RECURSIVE interpreter(_, _)
RECURSIVE evaluate(_, _), unary_expression(_, _, _), binary_expression(_, _, _, _)
RECURSIVE call_expression(_, _, _), evaluate_arguments(_, _, _, _), LoxFunction_call(_, _, _)
RECURSIVE execute_block(_, _, _), execute_statements(_, _, _), while_loop(_, _, _)

\* A lookup that ignores the resolved depth and takes the nearest binding
\* on the chain of the current environment.
lookup_dynamic(st, expr, name) ==
    LET nearest[e \in 0..Len(st.envs)] ==
            IF e = 0 THEN st.globals
            ELSE IF name \in DOMAIN st.envs[e].values THEN e
            ELSE nearest[st.envs[e].enclosing]
        r == Environment_get(st, nearest[st.environment], 0, name)
    IN  WithState(r, LogAccess(st, expr, get_locals_depth(st, expr.id), r.status))

\* Expr::Variable and Expr::This arms of evaluate.
lookup(st, expr, name) ==
    LET depth == get_locals_depth(st, expr.id)
        r == IF IsSome(depth)
             THEN Environment_get(st, st.environment, depth[1], name)
             ELSE Environment_get(st, st.globals, 0, name)
    IN  WithState(r, LogAccess(st, expr, depth, r.status))

\* A Super that starts the search at the superclass of the class of the
\* receiver.
evaluate_super_dynamic(st, expr) ==
    LET depth == get_locals_depth(st, expr.id)
        superobject == Environment_get(st, st.environment, depth[1] - 1, "this")
        superclass == st.classes[st.instances[superobject.value.n].class].superclass
        method == IF superclass = 0 THEN 0 ELSE find_method(st, superclass, expr.method)
        b == bind(st, method, superobject.value)
    IN  IF method # 0 THEN ROk(b.st, ObjectFunction(b.f))
        ELSE RErr(st, "InterpreterError", "Undefined property '" \o expr.method \o "'.")

\* Expr::Super arm of evaluate.
evaluate_super(st, expr) ==
    LET depth == get_locals_depth(st, expr.id)
    IN  IF ~IsSome(depth) THEN RPanic(st, "unwrap on None")
        ELSE
        LET superclass == Environment_get(st, st.environment, depth[1], expr.keyword)
            st1 == LogAccess(st, expr, depth, superclass.status)
        IN  IF superclass.status # "Ok" THEN WithState(superclass, st1)
            ELSE IF depth[1] = 0 THEN RPanic(st1, "attempt to subtract with overflow")
            ELSE
            LET superobject == Environment_get(st1, st1.environment, depth[1] - 1, "this")
            IN  IF superobject.status # "Ok" THEN superobject
                ELSE IF superclass.value.t # "Class" THEN RPanic(st1, "unreachable")
                ELSE LET method == find_method(st1, superclass.value.n, expr.method)
                     IN  IF method # 0
                         THEN LET b == bind(st1, method, superobject.value)
                              IN  ROk(b.st, ObjectFunction(b.f))
                         ELSE RErr(st1, "InterpreterError",
                                   "Undefined property '" \o expr.method \o "'.")

evaluate_assign(st, expr, value) ==
    LET depth == get_locals_depth(st, expr.id)
        r == IF IsSome(depth)
             THEN Environment_assign(st, st.environment, depth[1], expr.name, value)
             ELSE Environment_assign(st, st.globals, 0, expr.name, value)
        st1 == LogAccess(r.st, expr, depth, r.status)
    IN  IF r.status # "Ok" THEN WithState(r, st1) ELSE ROk(st1, value)

\* A Logical that evaluates both operands before it chooses.
evaluate_logical_eager(st, expr) ==
    LET left == evaluate(st, expr.left)
    IN  IF left.status # "Ok" THEN left
        ELSE LET right == evaluate(left.st, expr.right)
                 short == IF expr.operator = "Or" THEN is_truthy(left.value)
                          ELSE ~is_truthy(left.value)
                 r == IF right.status # "Ok" THEN right
                      ELSE IF short THEN ROk(right.st, left.value)
                      ELSE right
             IN  WithState(r, LogLogical(r.st, expr.operator, left.value, TRUE, r))

evaluate_logical(st, expr) ==
    LET left == evaluate(st, expr.left)
    IN  IF left.status # "Ok" THEN left
        ELSE IF expr.operator = "Or" /\ is_truthy(left.value)
        THEN WithState(left, LogLogical(left.st, expr.operator, left.value, FALSE, left))
        ELSE IF expr.operator # "Or" /\ ~is_truthy(left.value)
        THEN WithState(left, LogLogical(left.st, expr.operator, left.value, FALSE, left))
        ELSE LET right == evaluate(left.st, expr.right)
             IN  WithState(right, LogLogical(right.st, expr.operator, left.value, TRUE, right))

evaluate(st, expr) ==
    CASE expr.type = "Nil" -> ROk(st, ObjectNil)
      [] expr.type = "Boolean" -> ROk(st, ObjectBoolean(expr.b))
      [] expr.type = "String" -> ROk(st, ObjectString(expr.s))
      [] expr.type = "Number" -> ROk(st, ObjectNumber(expr.n))
      [] expr.type = "Grouping" -> evaluate(st, expr.expression)
      [] expr.type = "Unary" -> unary_expression(st, expr.token_type, expr.right)
      [] expr.type = "Binary" -> binary_expression(st, expr.left, expr.token_type, expr.right)
      [] expr.type = "Variable" -> lookup(st, expr, expr.name)
      [] expr.type = "This" -> lookup(st, expr, expr.keyword)
      [] expr.type = "Super" -> evaluate_super(st, expr)
      [] expr.type = "Assign" ->
            LET value == evaluate(st, expr.value)
            IN  IF value.status # "Ok" THEN value ELSE evaluate_assign(value.st, expr, value.value)
      [] expr.type = "Logical" -> evaluate_logical(st, expr)
      [] expr.type = "Call" -> call_expression(st, expr.callee, expr.arguments)
      [] expr.type = "Get" ->
            LET object == evaluate(st, expr.object)
            IN  IF object.status # "Ok" THEN object
                ELSE LoxInstance_get(object.st, object.value, expr.name)
      [] expr.type = "Set" ->
            LET object == evaluate(st, expr.object)
            IN  IF object.status # "Ok" THEN object
                ELSE LET value == evaluate(object.st, expr.value)
                     IN  IF value.status # "Ok" THEN value
                         ELSE IF object.value.t = "Instance"
                         THEN ROk(LoxInstance_set(value.st, object.value.n, expr.name,
                                                  value.value),
                                  ObjectNil)
                         ELSE RErr(value.st, "InterpreterError", "Only instances have fields.")

unary_expression(st, token_type, expr) ==
    LET right == evaluate(st, expr)
    IN  IF right.status # "Ok" THEN right
        ELSE CASE token_type = "Minus" ->
                    IF right.value.t = "Number" THEN ROk(right.st, ObjectNumber(-right.value.n))
                    ELSE RErr(right.st, "InterpreterError",
                              "Operand must be a number, but got '"
                                  \o Display(right.st, right.value) \o "'")
               [] token_type = "Bang" -> ROk(right.st, ObjectBoolean(~is_truthy(right.value)))
               [] OTHER -> RPanic(right.st, "unreachable")

\* The arithmetic and comparison arms: both operands must be numbers.
numeric(st, l, r, token_type) ==
    LET c == cast_operands_to_numbers(st, l, r)
    IN  IF c.status # "Ok" THEN c
        ELSE CASE token_type = "Star" -> ROk(st, ObjectNumber(l.n * r.n))
               [] token_type = "Minus" -> ROk(st, ObjectNumber(l.n - r.n))
               [] token_type = "Slash" ->
                     \* f64 division; only exact quotients are numbers of the model
                     IF r.n # 0 /\ l.n % r.n = 0 THEN ROk(st, ObjectNumber(l.n \div r.n))
                     ELSE RErr(st, "Unmodelled", "inexact quotient")
               [] token_type = "LessEqual" -> ROk(st, ObjectBoolean(l.n <= r.n))
               [] token_type = "Less" -> ROk(st, ObjectBoolean(l.n < r.n))
               [] token_type = "GreaterEqual" -> ROk(st, ObjectBoolean(l.n >= r.n))
               [] OTHER -> ROk(st, ObjectBoolean(l.n > r.n))

\* The token types binary_expression has an arm for; any other is unreachable!().
BinaryTokens ==
    {"Star", "Minus", "Slash", "Plus", "LessEqual", "Less", "GreaterEqual", "Greater"}

binary_expression(st, left, token_type, right) ==
    LET l == evaluate(st, left)
    IN  IF l.status # "Ok" THEN l
        ELSE
        LET r == evaluate(l.st, right)
        IN  IF r.status # "Ok" THEN r
            ELSE IF token_type \notin BinaryTokens THEN RPanic(r.st, "unreachable")
            ELSE IF token_type = "Plus"
            THEN IF cast_operands_to_numbers(r.st, l.value, r.value).status = "Ok"
                 THEN ROk(r.st, ObjectNumber(l.value.n + r.value.n))
                 ELSE IF cast_operands_to_strings(r.st, l.value, r.value).status = "Ok"
                 THEN ROk(r.st, ObjectString(l.value.s \o r.value.s))
                 ELSE RErr(r.st, "InterpreterError",
                           "The '+' operator requires either 2 numbers or 2 strings, but got '"
                               \o Display(r.st, l.value) \o "' and '"
                               \o Display(r.st, r.value) \o "'")
            ELSE numeric(r.st, l.value, r.value, token_type)

\* An evaluation of the arguments from the last to the first.
RECURSIVE evaluate_arguments_right_to_left(_, _, _, _)
evaluate_arguments_right_to_left(st, arguments, i, values) ==
    IF i > Len(arguments)
    THEN [st |-> st, status |-> "Ok", value |-> ObjectNil, err |-> "", values |-> values]
    ELSE LET a == evaluate(st, arguments[Len(arguments) + 1 - i])
         IN  IF a.status # "Ok"
             THEN [st |-> a.st, status |-> a.status, value |-> a.value, err |-> a.err,
                   values |-> values]
             ELSE evaluate_arguments_right_to_left(a.st, arguments, i + 1,
                                                   <<a.value>> \o values)

\* arguments.iter().map(evaluate).collect::<Result<Vec<_>>>(): stops at the first Err.
evaluate_arguments(st, arguments, i, values) ==
    IF i > Len(arguments)
    THEN [st |-> st, status |-> "Ok", value |-> ObjectNil, err |-> "", values |-> values]
    ELSE LET a == evaluate(st, arguments[i])
         IN  IF a.status # "Ok"
             THEN [st |-> a.st, status |-> a.status, value |-> a.value, err |-> a.err,
                   values |-> values]
             ELSE evaluate_arguments(a.st, arguments, i + 1, Append(values, a.value))


\* impl Function for Clock: call ignores its arguments.
Clock_arity == 0

Clock_call(st, arguments) == ROk(st, ObjectNumber(st.now))

\* Object::Class arm of call_expression.
call_class(st, klass, arguments) ==
    LET instance == ObjectInstance(Len(st.instances) + 1)
        st1 == [st EXCEPT !.instances = Append(@, [class |-> klass, fields |-> EmptyMap])]
        constructor == find_method(st1, klass, "init")
    IN  IF constructor # 0
        THEN LET b == bind(st1, constructor, instance)
                 r == LoxFunction_call(b.st, b.f, arguments)
             IN  IF r.status # "Ok" THEN r ELSE ROk(r.st, instance)
        ELSE ROk(st1, instance)

\* The arity a callee has (the arity of init, or 0, for a class), for the record.
ArityOf(st, callee) ==
    IF callee.t = "Function"
    THEN IF callee.s = "Clock" THEN Clock_arity ELSE Len(st.functions[callee.n].parameters)
    ELSE IF callee.t = "Class"
    THEN IF find_method(st, callee.n, "init") # 0
         THEN Len(st.functions[find_method(st, callee.n, "init")].parameters)
         ELSE 0
    ELSE 0

KindOf(callee) == IF callee.t = "Function" THEN callee.s ELSE callee.t

call_expression(st, callee, arguments) ==
    LET c == evaluate(st, callee)
    IN  IF c.status # "Ok" THEN c
        ELSE
        LET args == evaluate_arguments(c.st, arguments, 1, <<>>)
        IN  IF args.status # "Ok" THEN [x \in {"st", "status", "value", "err"} |-> args[x]]
            ELSE
            LET r == CASE c.value.t = "Function" ->
                            IF c.value.s = "Clock" THEN Clock_call(args.st, args.values)
                            ELSE LoxFunction_call(args.st, c.value.n, args.values)
                       [] c.value.t = "Class" -> call_class(args.st, c.value.n, args.values)
                       [] OTHER -> RErr(args.st, "InterpreterError",
                                        "Can only call functions and classes.")
            IN  WithState(r, LogCall(r.st, KindOf(c.value), ArityOf(args.st, c.value),
                                     Len(args.values), FALSE, ObjectNil, r))

define_parameters(st, env, parameters, arguments) ==
    [st EXCEPT !.envs[env].values =
         MapMerge(@, [x \in {parameters[i] : i \in 1..Len(parameters)} |->
                         LET last_i == CHOOSE i \in 1..Len(parameters) :
                                           /\ parameters[i] = x
                                           /\ \A j \in (i + 1)..Len(parameters) :
                                                  parameters[j] # x
                         IN  arguments[last_i]])]

\* The value `this` has in the closure of f, Nil when the closure does not define it.
ThisOf(st, f) ==
    IF "this" \in DOMAIN st.envs[st.functions[f].closure].values
    THEN st.envs[st.functions[f].closure].values["this"]
    ELSE ObjectNil

\* A call that lets the Return signal of its body travel on to its caller.
return_value_unwinding(fn, result) ==
    CASE result.status = "Ok" ->
             IF fn.is_initializer
             THEN Environment_get(result.st, fn.closure, 0, "this")
             ELSE ROk(result.st, ObjectNil)
      [] OTHER -> result

\* A call that treats an initializer like any other function.
return_value_plain(fn, result) ==
    CASE result.status = "Ok" -> ROk(result.st, ObjectNil)
      [] result.status = "Return" -> ROk(result.st, result.value)
      [] OTHER -> result

\* LoxFunction::call: `let return_value = match result { ... }`
return_value(fn, result) ==
    CASE result.status = "Ok" ->
             IF fn.is_initializer
             THEN Environment_get(result.st, fn.closure, 0, "this")
             ELSE ROk(result.st, ObjectNil)
      [] result.status = "Return" ->
             IF fn.is_initializer
             THEN Environment_get(result.st, fn.closure, 0, "this")
             ELSE ROk(result.st, result.value)
      [] OTHER -> result

\* impl Function for LoxFunction: call
LoxFunction_call(st, f, arguments) ==
    LET fn == st.functions[f]
        arity == Len(fn.parameters)
    IN  IF arity # Len(arguments)
        THEN LET r == RErr(st, "InterpreterError",
                           "Expected " \o ToString(arity) \o " arguments but got "
                               \o ToString(Len(arguments)) \o ".")
             IN  WithState(r, LogCall(st, "LoxFunction::call", arity, Len(arguments), fn.is_initializer,
                                      ThisOf(st, f), r))
        ELSE
        LET e == Environment_with_enclosing(st, fn.closure)
            st1 == define_parameters(e.st, e.env, fn.parameters, arguments)
            result == execute_block(st1, fn.body, e.env)
            r == return_value(fn, result)
        IN  WithState(r, LogCall(r.st, "LoxFunction::call", arity, Len(arguments), fn.is_initializer,
                                 ThisOf(st, f), r))

\* Stmt::Class arm of execute, after the superclass has been evaluated
\* (super_loxclass is 0 for None).
RECURSIVE new_methods(_, _, _, _, _)
new_methods(st, methods, i, method_environment, name_to_method) ==
    IF i > Len(methods) THEN [st |-> st, name_to_method |-> name_to_method]
    ELSE LET m == methods[i]
             f == LoxFunction_new(st, m.parameters, m.body, method_environment,
                                  m.name = "init")
         IN  new_methods(f.st, methods, i + 1, method_environment,
                         MapInsert(name_to_method, m.name, f.f))

execute_class(st, stmt, super_loxclass) ==
    LET me == IF super_loxclass # 0
              THEN LET e == Environment_with_enclosing(st, st.environment)
                   IN  [st |-> Environment_define(e.st, e.env, "super",
                                                  ObjectClass(super_loxclass)),
                        env |-> e.env]
              ELSE [st |-> st, env |-> st.environment]
        ms == new_methods(me.st, stmt.methods, 1, me.env, EmptyMap)
        st1 == [ms.st EXCEPT !.classes =
                    Append(@, [name |-> stmt.name, superclass |-> super_loxclass,
                               methods |-> ms.name_to_method])]
    IN  ROk(Environment_define(st1, st1.environment, stmt.name, ObjectClass(Len(st1.classes))),
            ObjectNil)

execute(st, stmt) ==
    CASE stmt.type = "Print" ->
            LET v == interpreter("evaluate", <<st, stmt.expression>>)
            IN  IF v.status # "Ok" THEN v
                ELSE ROk([v.st EXCEPT !.out = Append(@, Display(v.st, v.value))], ObjectNil)
      [] stmt.type = "Expression" ->
            LET v == interpreter("evaluate", <<st, stmt.expression>>)
            IN  IF v.status # "Ok" THEN v ELSE ROk(v.st, ObjectNil)
      [] stmt.type = "Var" ->
            LET v == IF IsSome(stmt.initializer)
                     THEN interpreter("evaluate", <<st, stmt.initializer[1]>>)
                     ELSE ROk(st, ObjectNil)
            IN  IF v.status # "Ok" THEN v
                ELSE ROk(Environment_define(v.st, v.st.environment, stmt.name, v.value),
                         ObjectNil)
      [] stmt.type = "Block" ->
            LET e == Environment_with_enclosing(st, st.environment)
            IN  execute_block(e.st, stmt.statements, e.env)
      [] stmt.type = "If" ->
            LET condition == interpreter("evaluate", <<st, stmt.condition>>)
            IN  IF condition.status # "Ok" THEN condition
                ELSE IF is_truthy(condition.value)
                THEN interpreter("execute", <<condition.st, stmt.then_branch>>)
                ELSE IF IsSome(stmt.else_branch)
                THEN interpreter("execute", <<condition.st, stmt.else_branch[1]>>)
                ELSE ROk(condition.st, ObjectNil)
      [] stmt.type = "While" -> while_loop(st, stmt.condition, stmt.body)
      [] stmt.type = "Function" ->
            LET f == LoxFunction_new(st, stmt.parameters, stmt.body, st.environment, FALSE)
            IN  ROk(Environment_define(f.st, f.st.environment, stmt.name, ObjectFunction(f.f)),
                    ObjectNil)
      [] stmt.type = "Return" ->
            LET v == IF IsSome(stmt.value) THEN interpreter("evaluate", <<st, stmt.value[1]>>)
                     ELSE ROk(st, ObjectNil)
            IN  IF v.status # "Ok" THEN v ELSE RReturn(v.st, v.value)
      [] stmt.type = "Class" ->
            IF IsSome(stmt.superclass)
            THEN LET super_object == interpreter("evaluate", <<st, stmt.superclass[1]>>)
                 IN  IF super_object.status # "Ok" THEN super_object
                     ELSE IF super_object.value.t = "Class"
                     THEN execute_class(super_object.st, stmt, super_object.value.n)
                     ELSE RErr(super_object.st, "InterpreterError",
                               "Superclass must be a class")
            ELSE execute_class(st, stmt, 0)

while_loop(st, condition, body) ==
    LET evaluated_condition == interpreter("evaluate", <<st, condition>>)
    IN  IF evaluated_condition.status # "Ok" THEN evaluated_condition
        ELSE IF is_truthy(evaluated_condition.value)
        THEN LET b == interpreter("execute", <<evaluated_condition.st, body>>)
             IN  IF b.status # "Ok" THEN b ELSE while_loop(b.st, condition, body)
        ELSE ROk(evaluated_condition.st, ObjectNil)

\* for statement in statements { self.execute(statement)? }
execute_statements(st, stmts, i) ==
    IF i > Len(stmts) THEN ROk(st, ObjectNil)
    ELSE LET r == interpreter("execute", <<st, stmts[i]>>)
         IN  IF r.status # "Ok" THEN r
             ELSE execute_statements(r.st, stmts, i + 1)

\* An execute_block that restores the environment on normal completion only.
execute_block_leaky(st, stmts, environment) ==
    LET previous == st.environment
        r == execute_statements([st EXCEPT !.environment = environment], stmts, 1)
        restored == IF r.status = "Ok" THEN [r.st EXCEPT !.environment = previous] ELSE r.st
    IN  WithState(r, LogBlock(restored, previous, r.status))

execute_block(st, stmts, environment) ==
    LET previous == st.environment
        r == execute_statements([st EXCEPT !.environment = environment], stmts, 1)
        restored == IF r.status = "panic" THEN r.st ELSE [r.st EXCEPT !.environment = previous]
    IN  WithState(r, LogBlock(restored, previous, r.status))

interpreter(method, args) ==
    CASE method = "evaluate" -> evaluate(args[1], args[2])
      [] method = "execute" -> execute(args[1], args[2])
      [] method = "execute_statements" -> execute_statements(args[1], args[2], args[3])

\* Interpreter::add_scopes
add_scopes(st, scopes) == [st EXCEPT !.scopes = MapMerge(@, scopes)]

\* Interpreter::interpret: the record of the call starts empty.
interpret(st, stmts) ==
    interpreter("execute_statements", <<[st EXCEPT !.out = <<>>, !.accesses = {}, !.blocks = {},
                                  !.logicals = {}, !.calls = {}],
                       stmts, 1>>)


\* run_file (main.rs) on a source text: a new Interpreter, and what the
\* pipeline returned for the text.
run_file(source) ==
    LET p == parse(lex(source), 0)
        r == resolve(p.statements)
    IN  IF p.panic THEN RPanic(Interpreter_new, "unreachable")
        ELSE IF Len(p.errors) > 0 THEN RErr(Interpreter_new, "ParserError", p.errors[1].msg)
        ELSE IF r.err # "" THEN RErr(Interpreter_new, "ResolverError", r.err)
        ELSE interpret(add_scopes(Interpreter_new, r.expr_id_to_depth), p.statements)

(***************************************************************************)
(* The source texts fed to the interpreter.                                *)
(***************************************************************************)
\* Each program is the sequence of its lexemes; the comment above it is its text.
Source ==
    \* print ( 3 + 4 ) * 6 ;
    [Arith |->
         <<"print", "(", "3", "+", "4", ")", "*", "6", ";">>,
    \* fun foo ( ) { return 1 ; } class A { foo ( ) { return 2 ; } bar (
    \* ) { return foo ( ) ; } } print A ( ) . bar ( ) ;
     MethodName |->
         <<"fun", "foo", "(", ")", "{", "return", "1", ";", "}", "class",
           "A", "{", "foo", "(", ")", "{", "return", "2", ";", "}", "bar",
           "(", ")", "{", "return", "foo", "(", ")", ";", "}", "}",
           "print", "A", "(", ")", ".", "bar", "(", ")", ";">>,
    \* var a = 1 ; { var a = a ; }
     VarOwnInit |->
         <<"var", "a", "=", "1", ";", "{", "var", "a", "=", "a", ";", "}">>,
    \* { if ( false ) var a = 1 ; print a ; }
     BranchVar |->
         <<"{", "if", "(", "false", ")", "var", "a", "=", "1", ";",
           "print", "a", ";", "}">>,
    \* fun f ( ) { { var x = 1 ; { print y ; } } } { f ( ) ; }
     BlockError |->
         <<"fun", "f", "(", ")", "{", "{", "var", "x", "=", "1", ";", "{",
           "print", "y", ";", "}", "}", "}", "{", "f", "(", ")", ";", "}">>,
    \* { var x = 1 ; { print - "a" ; } }
     BlockTypeError |->
         <<"{", "var", "x", "=", "1", ";", "{", "print", "-", "\"a\"", ";",
           "}", "}">>,
    \* var a = 1 ; { fun increment ( ) { a = a + 1 ; } increment ( ) ;
    \* var a = 5 ; increment ( ) ; print a ; } print a ;
     Resolves |->
         <<"var", "a", "=", "1", ";", "{", "fun", "increment", "(", ")",
           "{", "a", "=", "a", "+", "1", ";", "}", "increment", "(", ")",
           ";", "var", "a", "=", "5", ";", "increment", "(", ")", ";",
           "print", "a", ";", "}", "print", "a", ";">>,
    \* { var a = 1 ; { fun increment ( ) { a = a + 1 ; } increment ( ) ;
    \* var a = 5 ; increment ( ) ; print a ; } print a ; }
     ResolvesLocal |->
         <<"{", "var", "a", "=", "1", ";", "{", "fun", "increment", "(",
           ")", "{", "a", "=", "a", "+", "1", ";", "}", "increment", "(",
           ")", ";", "var", "a", "=", "5", ";", "increment", "(", ")", ";",
           "print", "a", ";", "}", "print", "a", ";", "}">>,
    \* var a = "outer" ; fun show ( ) { print a ; } fun g ( ) { var a =
    \* "inner" ; show ( ) ; } g ( ) ;
     CallSite |->
         <<"var", "a", "=", "\"outer\"", ";", "fun", "show", "(", ")", "{",
           "print", "a", ";", "}", "fun", "g", "(", ")", "{", "var", "a",
           "=", "\"inner\"", ";", "show", "(", ")", ";", "}", "g", "(",
           ")", ";">>,
    \* fun makeCounter ( ) { var i = 0 ; fun count ( ) { i = i + 1 ;
    \* return i ; } return count ; } var c = makeCounter ( ) ; var d =
    \* makeCounter ( ) ; print c ( ) ; print c ( ) ; print d ( ) ; print
    \* c ( ) ;
     Counter |->
         <<"fun", "makeCounter", "(", ")", "{", "var", "i", "=", "0", ";",
           "fun", "count", "(", ")", "{", "i", "=", "i", "+", "1", ";",
           "return", "i", ";", "}", "return", "count", ";", "}", "var",
           "c", "=", "makeCounter", "(", ")", ";", "var", "d", "=",
           "makeCounter", "(", ")", ";", "print", "c", "(", ")", ";",
           "print", "c", "(", ")", ";", "print", "d", "(", ")", ";",
           "print", "c", "(", ")", ";">>,
    \* var inc ; var get ; fun make ( ) { var i = 0 ; fun f ( ) { i = i +
    \* 1 ; } fun g ( ) { return i ; } inc = f ; get = g ; } make ( ) ;
    \* inc ( ) ; inc ( ) ; print get ( ) ;
     Siblings |->
         <<"var", "inc", ";", "var", "get", ";", "fun", "make", "(", ")",
           "{", "var", "i", "=", "0", ";", "fun", "f", "(", ")", "{", "i",
           "=", "i", "+", "1", ";", "}", "fun", "g", "(", ")", "{",
           "return", "i", ";", "}", "inc", "=", "f", ";", "get", "=", "g",
           ";", "}", "make", "(", ")", ";", "inc", "(", ")", ";", "inc",
           "(", ")", ";", "print", "get", "(", ")", ";">>,
    \* { var x = 1 ; fun show ( ) { print x ; } x = 2 ; show ( ) ; }
     DefiningScope |->
         <<"{", "var", "x", "=", "1", ";", "fun", "show", "(", ")", "{",
           "print", "x", ";", "}", "x", "=", "2", ";", "show", "(", ")",
           ";", "}">>,
    \* var a = 1 ; { var a = 2 ; print a ; } print a ;
     Shadow |->
         <<"var", "a", "=", "1", ";", "{", "var", "a", "=", "2", ";",
           "print", "a", ";", "}", "print", "a", ";">>,
    \* { var t = 1 ; print t ; } print t ;
     BlockLocal |->
         <<"{", "var", "t", "=", "1", ";", "print", "t", ";", "}", "print",
           "t", ";">>,
    \* var a = 1 ; { a = 3 ; print a ; } print a ;
     BlockAssign |->
         <<"var", "a", "=", "1", ";", "{", "a", "=", "3", ";", "print",
           "a", ";", "}", "print", "a", ";">>,
    \* fun fib ( n ) { if ( n <= 1 ) { return n ; } return fib ( n - 1 )
    \* + fib ( n - 2 ) ; } print fib ( 3 ) ;
     Fib |->
         <<"fun", "fib", "(", "n", ")", "{", "if", "(", "n", "<=", "1",
           ")", "{", "return", "n", ";", "}", "return", "fib", "(", "n",
           "-", "1", ")", "+", "fib", "(", "n", "-", "2", ")", ";", "}",
           "print", "fib", "(", "3", ")", ";">>,
    \* fun f ( ) { while ( true ) { if ( true ) { { return 3 ; } } print
    \* 6 ; } print 7 ; } fun g ( ) { var r = f ( ) ; print r ; return ;
    \* print 5 ; } print g ( ) ;
     NestedReturn |->
         <<"fun", "f", "(", ")", "{", "while", "(", "true", ")", "{", "if",
           "(", "true", ")", "{", "{", "return", "3", ";", "}", "}",
           "print", "6", ";", "}", "print", "7", ";", "}", "fun", "g", "(",
           ")", "{", "var", "r", "=", "f", "(", ")", ";", "print", "r",
           ";", "return", ";", "print", "5", ";", "}", "print", "g", "(",
           ")", ";">>,
    \* class P { init ( x ) { this . x = x ; return ; } } class Q < P { }
    \* var p = P ( 3 ) ; print p . x ; print p . init ( 4 ) . x ; print p
    \* . x ; print Q ( 5 ) . x ;
     Init |->
         <<"class", "P", "{", "init", "(", "x", ")", "{", "this", ".", "x",
           "=", "x", ";", "return", ";", "}", "}", "class", "Q", "<", "P",
           "{", "}", "var", "p", "=", "P", "(", "3", ")", ";", "print",
           "p", ".", "x", ";", "print", "p", ".", "init", "(", "4", ")",
           ".", "x", ";", "print", "p", ".", "x", ";", "print", "Q", "(",
           "5", ")", ".", "x", ";">>,
    \* class R { init ( ) { this . x = 1 ; } } var r = R ( ) ; print r .
    \* x ; r . x = 2 ; print r . init ( ) . x ;
     InitPlain |->
         <<"class", "R", "{", "init", "(", ")", "{", "this", ".", "x", "=",
           "1", ";", "}", "}", "var", "r", "=", "R", "(", ")", ";",
           "print", "r", ".", "x", ";", "r", ".", "x", "=", "2", ";",
           "print", "r", ".", "init", "(", ")", ".", "x", ";">>,
    \* print clock ( ) ;
     Clock |->
         <<"print", "clock", "(", ")", ";">>,
    \* print clock ( 1 ) ;
     ClockArity |->
         <<"print", "clock", "(", "1", ")", ";">>,
    \* class E { } print E ( 1 ) ;
     ClassArity |->
         <<"class", "E", "{", "}", "print", "E", "(", "1", ")", ";">>,
    \* fun f ( a ) { print a ; } f ( 1 , 2 ) ;
     FunArity |->
         <<"fun", "f", "(", "a", ")", "{", "print", "a", ";", "}", "f",
           "(", "1", ",", "2", ")", ";">>,
    \* class P { init ( x ) { print x ; } } P ( ) ;
     InitArity |->
         <<"class", "P", "{", "init", "(", "x", ")", "{", "print", "x",
           ";", "}", "}", "P", "(", ")", ";">>,
    \* class P { m ( ) { print 1 ; } } P ( ) . m ( 2 ) ;
     MethodArity |->
         <<"class", "P", "{", "m", "(", ")", "{", "print", "1", ";", "}",
           "}", "P", "(", ")", ".", "m", "(", "2", ")", ";">>,
    \* print 1 == 1 ;
     EqualEqual |->
         <<"print", "1", "==", "1", ";">>,
    \* print 1 != 2 ;
     BangEqual |->
         <<"print", "1", "!=", "2", ";">>,
    \* print "a" != "a" ;
     StringBangEqual |->
         <<"print", "\"a\"", "!=", "\"a\"", ";">>,
    \* print nil or "b" ; print 1 or 2 ; print nil and 1 ; print 1 and 2
    \* ; print false or false ;
     LogicalValues |->
         <<"print", "nil", "or", "\"b\"", ";", "print", "1", "or", "2",
           ";", "print", "nil", "and", "1", ";", "print", "1", "and", "2",
           ";", "print", "false", "or", "false", ";">>,
    \* var x = 0 ; fun f ( ) { x = x + 1 ; return true ; } false or f ( )
    \* ; true or f ( ) ; true and f ( ) ; false and f ( ) ; f ( ) or 1 ;
    \* print x ;
     LogicalEffects |->
         <<"var", "x", "=", "0", ";", "fun", "f", "(", ")", "{", "x", "=",
           "x", "+", "1", ";", "return", "true", ";", "}", "false", "or",
           "f", "(", ")", ";", "true", "or", "f", "(", ")", ";", "true",
           "and", "f", "(", ")", ";", "false", "and", "f", "(", ")", ";",
           "f", "(", ")", "or", "1", ";", "print", "x", ";">>,
    \* class A { get ( ) { return this . x ; } } var a = A ( ) ; var b = A
    \* ( ) ; a . x = 1 ; b . x = 2 ; var m = a . get ; var n = b . get ;
    \* print m ( ) ; print n ( ) ; print m ( ) ; print a . get ( ) ;
     Rebind |->
         <<"class", "A", "{", "get", "(", ")", "{", "return", "this", ".",
           "x", ";", "}", "}", "var", "a", "=", "A", "(", ")", ";", "var",
           "b", "=", "A", "(", ")", ";", "a", ".", "x", "=", "1", ";", "b",
           ".", "x", "=", "2", ";", "var", "m", "=", "a", ".", "get", ";",
           "var", "n", "=", "b", ".", "get", ";", "print", "m", "(", ")",
           ";", "print", "n", "(", ")", ";", "print", "m", "(", ")", ";",
           "print", "a", ".", "get", "(", ")", ";">>,
    \* class Z { who ( ) { return this . x ; } } class A < Z { m ( ) {
    \* return 1 ; } } class B < A { m ( ) { return 2 ; } t ( ) { return
    \* super . m ( ) ; } u ( ) { fun f ( ) { return super . m ( ) ; }
    \* return f ( ) ; } w ( ) { return super . who ( ) ; } } class C < B {
    \* m ( ) { return 3 ; } } var c = C ( ) ; c . x = 7 ; print c . t ( ) ;
    \* print c . u ( ) ; print c . w ( ) ; print B ( ) . t ( ) ; print c .
    \* m ( ) ;
     Super |->
         <<"class", "Z", "{", "who", "(", ")", "{", "return", "this", ".",
           "x", ";", "}", "}", "class", "A", "<", "Z", "{", "m", "(", ")",
           "{", "return", "1", ";", "}", "}", "class", "B", "<", "A", "{",
           "m", "(", ")", "{", "return", "2", ";", "}", "t", "(", ")", "{",
           "return", "super", ".", "m", "(", ")", ";", "}", "u", "(", ")",
           "{", "fun", "f", "(", ")", "{", "return", "super", ".", "m", "(",
           ")", ";", "}", "return", "f", "(", ")", ";", "}", "w", "(", ")",
           "{", "return", "super", ".", "who", "(", ")", ";", "}", "}",
           "class", "C", "<", "B", "{", "m", "(", ")", "{", "return", "3",
           ";", "}", "}", "var", "c", "=", "C", "(", ")", ";", "c", ".", "x",
           "=", "7", ";", "print", "c", ".", "t", "(", ")", ";", "print",
           "c", ".", "u", "(", ")", ";", "print", "c", ".", "w", "(", ")",
           ";", "print", "B", "(", ")", ".", "t", "(", ")", ";", "print",
           "c", ".", "m", "(", ")", ";">>,
    \* class A { } class B < A { m ( ) { return 2 ; } t ( ) { return super
    \* . m ( ) ; } } print 4 ; B ( ) . t ( ) ;
     SuperMissing |->
         <<"class", "A", "{", "}", "class", "B", "<", "A", "{", "m", "(",
           ")", "{", "return", "2", ";", "}", "t", "(", ")", "{", "return",
           "super", ".", "m", "(", ")", ";", "}", "}", "print", "4", ";",
           "B", "(", ")", ".", "t", "(", ")", ";">>,
    \* class A { f ( ) { return 1 ; } g ( ) { return 2 ; } } class B < A {
    \* g ( ) { return this . y ; } } var b = B ( ) ; b . y = 3 ; print b .
    \* f ( ) ; print b . g ( ) ; b . f = 5 ; print b . f ;
     Props |->
         <<"class", "A", "{", "f", "(", ")", "{", "return", "1", ";", "}",
           "g", "(", ")", "{", "return", "2", ";", "}", "}", "class", "B",
           "<", "A", "{", "g", "(", ")", "{", "return", "this", ".", "y",
           ";", "}", "}", "var", "b", "=", "B", "(", ")", ";", "b", ".", "y",
           "=", "3", ";", "print", "b", ".", "f", "(", ")", ";", "print",
           "b", ".", "g", "(", ")", ";", "b", ".", "f", "=", "5", ";",
           "print", "b", ".", "f", ";">>,
    \* class A { } print 4 ; print A ( ) . nope ;
     PropMissing |->
         <<"class", "A", "{", "}", "print", "4", ";", "print", "A", "(", ")",
           ".", "nope", ";">>,
    \* print 4 ; print "a" . x ;
     PropNonInstance |->
         <<"print", "4", ";", "print", "\"a\"", ".", "x", ";">>,
    \* class A { } var a = A ( ) ; var b = a ; var c = A ( ) ; c . x = 6 ;
    \* a . y = 4 ; print a . x = 1 ; print b . x ; a . x = 2 ; print b . x
    \* ; print c . x ; print a . y ;
     Fields |->
         <<"class", "A", "{", "}", "var", "a", "=", "A", "(", ")", ";",
           "var", "b", "=", "a", ";", "var", "c", "=", "A", "(", ")", ";",
           "c", ".", "x", "=", "6", ";", "a", ".", "y", "=", "4", ";",
           "print", "a", ".", "x", "=", "1", ";", "print", "b", ".", "x",
           ";", "a", ".", "x", "=", "2", ";", "print", "b", ".", "x", ";",
           "print", "c", ".", "x", ";", "print", "a", ".", "y", ";">>,
    \* fun f ( ) { print 1 ; return 2 ; } fun g ( ) { print 0 ; return "a"
    \* ; } g ( ) . x = f ( ) ;
     SetNonInstance |->
         <<"fun", "f", "(", ")", "{", "print", "1", ";", "return", "2", ";",
           "}", "fun", "g", "(", ")", "{", "print", "0", ";", "return",
           "\"a\"", ";", "}", "g", "(", ")", ".", "x", "=", "f", "(", ")",
           ";">>,
    \* { var a = a ; }
     OwnInit |->
         <<"{", "var", "a", "=", "a", ";", "}">>]

Sources == {Source[name] : name \in DOMAIN Source}

\* The source texts about what the resolver accepts and what it rejects.
ResolverSource ==
    \* return 1 ;
    [RetTop |->
         <<"return", "1", ";">>,
    \* { if ( true ) while ( true ) return ; }
     RetTopNested |->
         <<"{", "if", "(", "true", ")", "while", "(", "true", ")", "return",
           ";", "}">>,
    \* class F { init ( ) { return 1 ; } }
     RetInit |->
         <<"class", "F", "{", "init", "(", ")", "{", "return", "1", ";", "}",
           "}">>,
    \* class F { init ( ) { fun g ( ) { return 1 ; } return ; } m ( ) {
    \* return 2 ; } } fun f ( ) { return ; } print F ( ) . m ( ) ;
     RetAccepted |->
         <<"class", "F", "{", "init", "(", ")", "{", "fun", "g", "(", ")",
           "{", "return", "1", ";", "}", "return", ";", "}", "m", "(", ")",
           "{", "return", "2", ";", "}", "}", "fun", "f", "(", ")", "{",
           "return", ";", "}", "print", "F", "(", ")", ".", "m", "(", ")",
           ";">>,
    \* fun f ( ) { return 1 ; } return 2 ;
     RetAfterFunction |->
         <<"fun", "f", "(", ")", "{", "return", "1", ";", "}", "return", "2",
           ";">>,
    \* class F { m ( ) { return 1 ; } } return ;
     RetAfterMethod |->
         <<"class", "F", "{", "m", "(", ")", "{", "return", "1", ";", "}",
           "}", "return", ";">>,
    \* class F { init ( ) { fun g ( ) { return 1 ; } return 3 ; } }
     RetAfterNested |->
         <<"class", "F", "{", "init", "(", ")", "{", "fun", "g", "(", ")",
           "{", "return", "1", ";", "}", "return", "3", ";", "}", "}">>,
    \* print this ;
     ThisTop |->
         <<"print", "this", ";">>,
    \* super . m ( ) ;
     SuperTop |->
         <<"super", ".", "m", "(", ")", ";">>,
    \* class A { m ( ) { return this ; } } print this ;
     ThisAfterClass |->
         <<"class", "A", "{", "m", "(", ")", "{", "return", "this", ";", "}",
           "}", "print", "this", ";">>,
    \* class A { } class B < A { m ( ) { return super . m ; } } super . m ;
     SuperAfterClass |->
         <<"class", "A", "{", "}", "class", "B", "<", "A", "{", "m", "(",
           ")", "{", "return", "super", ".", "m", ";", "}", "}", "super",
           ".", "m", ";">>,
    \* class A { m ( ) { super . m ( ) ; } }
     SuperNoSuperclass |->
         <<"class", "A", "{", "m", "(", ")", "{", "super", ".", "m", "(",
           ")", ";", "}", "}">>,
    \* class A { } class B < A { m ( ) { class C { n ( ) { super . n ( ) ;
    \* } } } }
     SuperNested |->
         <<"class", "A", "{", "}", "class", "B", "<", "A", "{", "m", "(",
           ")", "{", "class", "C", "{", "n", "(", ")", "{", "super", ".",
           "n", "(", ")", ";", "}", "}", "}", "}">>,
    \* class A { m ( ) { return 1 ; } } class B < A { m ( ) { class C { }
    \* return super . m ( ) + this . x ; } } var b = B ( ) ; b . x = 2 ;
    \* print b . m ( ) ;
     ThisSuperAccepted |->
         <<"class", "A", "{", "m", "(", ")", "{", "return", "1", ";", "}",
           "}", "class", "B", "<", "A", "{", "m", "(", ")", "{", "class",
           "C", "{", "}", "return", "super", ".", "m", "(", ")", "+", "this",
           ".", "x", ";", "}", "}", "var", "b", "=", "B", "(", ")", ";", "b",
           ".", "x", "=", "2", ";", "print", "b", ".", "m", "(", ")", ";">>,
    \* print 4 ; class X < X { init ( ) { return 1 ; } }
     SelfInherit |->
         <<"print", "4", ";", "class", "X", "<", "X", "{", "init", "(", ")",
           "{", "return", "1", ";", "}", "}">>,
    \* fun f ( ) { { class X < X { m ( ) { return super . m ; } } } }
     SelfInheritNested |->
         <<"fun", "f", "(", ")", "{", "{", "class", "X", "<", "X", "{", "m",
           "(", ")", "{", "return", "super", ".", "m", ";", "}", "}", "}",
           "}">>,
    \* class X { m ( ) { return 5 ; } } { class Y < X { } print Y ( ) . m (
    \* ) ; }
     Inherit |->
         <<"class", "X", "{", "m", "(", ")", "{", "return", "5", ";", "}",
           "}", "{", "class", "Y", "<", "X", "{", "}", "print", "Y", "(",
           ")", ".", "m", "(", ")", ";", "}">>,
    \* class F { init ( ) { this . x = 1 ; while ( true ) { return ; } } m
    \* ( ) { { return this . x ; } } } fun g ( ) { var m = F ( ) . m ;
    \* print m ( ) ; return 2 ; } print g ( ) ;
     RetInnermost |->
         <<"class", "F", "{", "init", "(", ")", "{", "this", ".", "x", "=",
           "1", ";", "while", "(", "true", ")", "{", "return", ";", "}", "}",
           "m", "(", ")", "{", "{", "return", "this", ".", "x", ";", "}",
           "}", "}", "fun", "g", "(", ")", "{", "var", "m", "=", "F", "(",
           ")", ".", "m", ";", "print", "m", "(", ")", ";", "return", "2",
           ";", "}", "print", "g", "(", ")", ";">>]

\* The source texts about the order of evaluation, about names that are
\* not defined, and about functions called from later source texts.
InterpreterSource ==
    \* fun t ( x ) { print x ; return x ; } fun add ( a , b ) { return a +
    \* b ; } fun h ( ) { print 0 ; return add ; } print h ( ) ( t ( 1 ) , t
    \* ( 2 ) ) ; print t ( 3 ) - t ( 4 ) ; t ( 5 ) ( t ( 6 ) ) ; print 7 ;
    [Order |->
         <<"fun", "t", "(", "x", ")", "{", "print", "x", ";", "return", "x",
           ";", "}", "fun", "add", "(", "a", ",", "b", ")", "{", "return",
           "a", "+", "b", ";", "}", "fun", "h", "(", ")", "{", "print", "0",
           ";", "return", "add", ";", "}", "print", "h", "(", ")", "(", "t",
           "(", "1", ")", ",", "t", "(", "2", ")", ")", ";", "print", "t",
           "(", "3", ")", "-", "t", "(", "4", ")", ";", "t", "(", "5", ")",
           "(", "t", "(", "6", ")", ")", ";", "print", "7", ";">>,
    \* fun t ( x ) { print x ; return x ; } fun add ( a , b ) { return a +
    \* b ; } add ( t ( 1 ) , nope , t ( 2 ) ) ; print 7 ;
     OrderArgument |->
         <<"fun", "t", "(", "x", ")", "{", "print", "x", ";", "return", "x",
           ";", "}", "fun", "add", "(", "a", ",", "b", ")", "{", "return",
           "a", "+", "b", ";", "}", "add", "(", "t", "(", "1", ")", ",",
           "nope", ",", "t", "(", "2", ")", ")", ";", "print", "7", ";">>,
    \* fun t ( x ) { print x ; return x ; } fun add ( a , b ) { return a +
    \* b ; } add ( t ( 1 ) , t ( 2 ) , t ( 3 ) ) ; print 7 ;
     OrderArity |->
         <<"fun", "t", "(", "x", ")", "{", "print", "x", ";", "return", "x",
           ";", "}", "fun", "add", "(", "a", ",", "b", ")", "{", "return",
           "a", "+", "b", ";", "}", "add", "(", "t", "(", "1", ")", ",", "t",
           "(", "2", ")", ",", "t", "(", "3", ")", ")", ";", "print", "7",
           ";">>,
    \* fun t ( x ) { print x ; return x ; } fun add ( a , b ) { return a +
    \* b ; } print t ( 1 ) - t ( "a" ) ; print 7 ;
     OrderBinary |->
         <<"fun", "t", "(", "x", ")", "{", "print", "x", ";", "return", "x",
           ";", "}", "fun", "add", "(", "a", ",", "b", ")", "{", "return",
           "a", "+", "b", ";", "}", "print", "t", "(", "1", ")", "-", "t",
           "(", "\"a\"", ")", ";", "print", "7", ";">>,
    \* var a = 0 ; fun s ( x ) { a = a * 2 + x ; return a ; } class K { }
    \* var k = K ( ) ; k . f = 1 ; fun w ( x ) { k . f = k . f * 2 + x ;
    \* return k . f ; } print s ( 1 ) + s ( 2 ) ; print a ; print w ( 1 ) -
    \* w ( 2 ) ; print k . f ;
     OrderEffects |->
         <<"var", "a", "=", "0", ";", "fun", "s", "(", "x", ")", "{", "a",
           "=", "a", "*", "2", "+", "x", ";", "return", "a", ";", "}",
           "class", "K", "{", "}", "var", "k", "=", "K", "(", ")", ";", "k",
           ".", "f", "=", "1", ";", "fun", "w", "(", "x", ")", "{", "k", ".",
           "f", "=", "k", ".", "f", "*", "2", "+", "x", ";", "return", "k",
           ".", "f", ";", "}", "print", "s", "(", "1", ")", "+", "s", "(",
           "2", ")", ";", "print", "a", ";", "print", "w", "(", "1", ")",
           "-", "w", "(", "2", ")", ";", "print", "k", ".", "f", ";">>,
    \* var a = 1 ; { var b = 2 ; print b ; c = 3 ; print a ; }
     MissingGlobalAssign |->
         <<"var", "a", "=", "1", ";", "{", "var", "b", "=", "2", ";",
           "print", "b", ";", "c", "=", "3", ";", "print", "a", ";", "}">>,
    \* var a = 1 ; { var b = 2 ; { if ( false ) var a = 3 ; print b ; a = 4
    \* ; print a ; } }
     MissingLocalAssign |->
         <<"var", "a", "=", "1", ";", "{", "var", "b", "=", "2", ";", "{",
           "if", "(", "false", ")", "var", "a", "=", "3", ";", "print", "b",
           ";", "a", "=", "4", ";", "print", "a", ";", "}", "}">>,
    \* var a = 1 ; { if ( false ) var a = 3 ; print 2 ; print a ; }
     MissingLocalRead |->
         <<"var", "a", "=", "1", ";", "{", "if", "(", "false", ")", "var",
           "a", "=", "3", ";", "print", "2", ";", "print", "a", ";", "}">>,
    \* var a = 1 ; { var b = 2 ; print b ; print c ; }
     MissingGlobalRead |->
         <<"var", "a", "=", "1", ";", "{", "var", "b", "=", "2", ";",
           "print", "b", ";", "print", "c", ";", "}">>,
    \* var a = 1 ; { var a = 2 ; { var a = 3 ; fun f ( ) { a = 4 ; } { var
    \* a = 5 ; f ( ) ; print a ; } print a ; } print a ; } print a ;
     AssignDepth |->
         <<"var", "a", "=", "1", ";", "{", "var", "a", "=", "2", ";", "{",
           "var", "a", "=", "3", ";", "fun", "f", "(", ")", "{", "a", "=",
           "4", ";", "}", "{", "var", "a", "=", "5", ";", "f", "(", ")", ";",
           "print", "a", ";", "}", "print", "a", ";", "}", "print", "a", ";",
           "}", "print", "a", ";">>,
    \* fun keep ( ) { var q = 1 ; { print q ; q = q + 1 ; print q ; } }
     ScopesFirst |->
         <<"fun", "keep", "(", ")", "{", "var", "q", "=", "1", ";", "{",
           "print", "q", ";", "q", "=", "q", "+", "1", ";", "print", "q",
           ";", "}", "}">>,
    \* { var q = 5 ; print q ; } keep ( ) ;
     ScopesSecond |->
         <<"{", "var", "q", "=", "5", ";", "print", "q", ";", "}", "keep",
           "(", ")", ";">>,
    \* class A { m ( ) { return this ; } } class B < A { m ( ) { return
    \* super . m ( ) ; } } B ( ) . m ( ) ;
     ScopesClass |->
         <<"class", "A", "{", "m", "(", ")", "{", "return", "this", ";", "}",
           "}", "class", "B", "<", "A", "{", "m", "(", ")", "{", "return",
           "super", ".", "m", "(", ")", ";", "}", "}", "B", "(", ")", ".",
           "m", "(", ")", ";">>]

\* The left-hand sides and the values of the assignments handed to the
\* parser: a Variable, two Gets, and a literal, a grouping, a call, a binary
\* and `this`; a literal, a Variable, an assignment and a Set.
AssignmentTargets ==
    {<<"a">>, <<"a", ".", "b">>, <<"a", "(", ")", ".", "b">>, <<"1">>, <<"(", "a", ")">>,
     <<"a", "(", ")">>, <<"a", "+", "b">>, <<"this">>}

AssignmentValues ==
    {<<"1">>, <<"c">>, <<"b", "=", "c">>, <<"b", ".", "c", "=", "2">>}

\* The clauses and the bodies of the for statements handed to the parser;
\* the empty sequence is an omitted clause.  A body is a block, a print
\* statement or a variable declaration.
ForClauses ==
    [initializer |-> {<<>>, <<"var", "i", "=", "0">>, <<"i", "=", "0">>},
     condition |-> {<<>>, <<"n", "<", "2">>},
     increment |-> {<<>>, <<"i", "=", "i", "+", "1">>},
     body |-> {<<"{", "print", "tick", "(", ")", "+", "i", ";", "}">>,
               <<"print", "tick", "(", ")", "+", "i", ";">>,
               <<"var", "x", "=", "tick", "(", ")", "+", "i", ";">>}]

\* A program around a loop: tick counts the iterations in n and ends the
\* third one with a runtime error, and the statements after the loop print
\* what is left of i and x.
ForProgram(loop) ==
    <<"var", "i", "=", "5", ";", "var", "n", "=", "0", ";",
      "fun", "tick", "(", ")", "{", "n", "=", "n", "+", "1", ";",
      "if", "(", "2", "<", "n", ")", "stop", "(", ")", ";", "return", "n", ";", "}">>
    \o loop \o <<"print", "i", ";", "print", "x", ";">>

\* for ( initializer ; condition ; increment ) body
ForLoop(initializer, condition, increment, body) ==
    <<"for", "(">> \o (IF initializer = <<>> THEN <<";">> ELSE initializer \o <<";">>)
    \o condition \o <<";">> \o increment \o <<")">> \o body

\* One program for every choice of clauses and body.
ForPrograms ==
    {ForProgram(ForLoop(initializer, condition, increment, body)) :
         initializer \in ForClauses.initializer, condition \in ForClauses.condition,
         increment \in ForClauses.increment, body \in ForClauses.body}

\* The values clock() may read.
Times == {0, 7}

\* The number of source texts fed to one interpreter.
MaxLines == 2

\* The characters a source text handed to lex is made of: a letter, a digit,
\* the dot, the quote, a character that starts no token, the blank, the
\* newline and the slash.
Alphabet == {"a", "1", ".", "\"", "@", " ", "\n", "/"}

\* The number of characters of a source text handed to lex.
MaxChars == 4

(***************************************************************************)
(* The state machine: a client of the crate's functions that runs lex,     *)
(* parse, resolve, add_scopes and interpret in the order of run_prompt     *)
(* (main.rs) and of tests::interpret, on one Interpreter, for one source   *)
(* text after the other.  The client goes on with the next text after a    *)
(* stage returned errors; a panic ends the process.                        *)
(***************************************************************************)
Outcome(stage, source, status, err) ==
    [stage |-> stage, source |-> source, status |-> status, err |-> err]

Init ==
    /\ interp = Interpreter_new
    /\ next_expression_id = 0
    /\ pc = "prompt"
    /\ statements = <<>>
    /\ pending_scopes = EmptyMap
    /\ last = Outcome("new", <<>>, "Ok", "")
    /\ lines = 0
    /\ lexed = [source |-> <<>>, status |-> "reading", tokens |-> <<>>, errors |-> <<>>]

\* What the client does with the statements and the errors parse returned.
Parsed(source, p) ==
    /\ next_expression_id' = p.nid
    /\ lines' = lines + 1
    /\ IF p.panic
       THEN /\ pc' = "dead"
            /\ last' = Outcome("parse", source, "panic", "unreachable")
            /\ statements' = <<>>
       ELSE IF Len(p.errors) > 0
       THEN /\ pc' = "prompt"
            /\ last' = Outcome("parse", source, "ParserError", p.errors[1].msg)
            /\ statements' = <<>>
       ELSE /\ pc' = "parsed"
            /\ last' = Outcome("parse", source, "Ok", "")
            /\ statements' = p.statements
    /\ UNCHANGED <<interp, pending_scopes, lexed>>

\* Parse with a counter that starts at 0 in every parse instead of the
\* process-wide NEXT_EXPRESSION_ID.
Parse_with_ids_per_parse(source) ==
    /\ pc = "prompt"
    /\ lines < MaxLines
    /\ Parsed(source, parse(lex(source), 0))

\* lexer::lex and parser::parse of the next source text
Parse(source) ==
    /\ pc = "prompt"
    /\ lines < MaxLines
    /\ Parsed(source, parse(lex(source), next_expression_id))

\* What the client does with the scopes or the error resolve returned.
Resolved(r) ==
    /\ IF r.err # ""
       THEN /\ pc' = "prompt"
            /\ last' = Outcome("resolve", last.source, "ResolverError", r.err)
            /\ statements' = <<>>
            /\ pending_scopes' = EmptyMap
       ELSE /\ pc' = "resolved"
            /\ last' = Outcome("resolve", last.source, "Ok", "")
            /\ statements' = statements
            /\ pending_scopes' = r.expr_id_to_depth
    /\ UNCHANGED <<interp, next_expression_id, lines, lexed>>

\* resolver::resolve
Resolve ==
    /\ pc = "parsed"
    /\ Resolved(resolve(statements))

\* Interpreter::add_scopes
AddScopes ==
    /\ pc = "resolved"
    /\ interp' = add_scopes(interp, pending_scopes)
    /\ pc' = "ready"
    /\ pending_scopes' = EmptyMap
    /\ last' = Outcome("add_scopes", last.source, "Ok", "")
    /\ UNCHANGED <<next_expression_id, statements, lines, lexed>>

\* What the client is left with when interpret has returned r.
Interpreted(r) ==
    /\ interp' = [r.st EXCEPT !.now = 0]
    /\ last' = Outcome("interpret", last.source, r.status, r.err)
    /\ pc' = IF r.status = "panic" THEN "dead" ELSE "prompt"
    /\ statements' = <<>>
    /\ UNCHANGED <<next_expression_id, pending_scopes, lines, lexed>>

\* Interpreter::interpret; `now` is what the system clock reads during the call.
Interpret(now) ==
    /\ pc = "ready"
    /\ Interpreted(interpret([interp EXCEPT !.now = now], statements))

Next ==
    \/ \E source \in Sources : Parse(source)
    \/ Resolve
    \/ AddScopes
    \/ \E now \in Times : Interpret(now)

Spec == Init /\ [][Next]_vars

\* The same client fed the source texts about the resolver.
ResolverNext ==
    \/ \E name \in DOMAIN ResolverSource : Parse(ResolverSource[name])
    \/ Resolve
    \/ AddScopes
    \/ \E now \in Times : Interpret(now)

ResolverSpec == Init /\ [][ResolverNext]_vars

\* A client of lexer::lex: it reads up to MaxChars characters of Alphabet
\* and hands them to lex.
ReadChar(ch) ==
    /\ lexed.status = "reading"
    /\ Len(lexed.source) < MaxChars
    /\ lexed' = [lexed EXCEPT !.source = Append(@, ch)]
    /\ UNCHANGED <<interp, next_expression_id, pc, statements, pending_scopes, last, lines>>

Lex ==
    /\ lexed.status = "reading"
    /\ lexed' = lex_chars(lexed.source)
    /\ UNCHANGED <<interp, next_expression_id, pc, statements, pending_scopes, last, lines>>

LexerNext ==
    \/ \E ch \in Alphabet : ReadChar(ch)
    \/ Lex

LexerSpec == Init /\ [][LexerNext]_vars

\* The same client fed one assignment statement, or one program around a
\* for statement, per source text.
ParserNext ==
    \/ \E target \in AssignmentTargets, value \in AssignmentValues :
           Parse(target \o <<"=">> \o value \o <<";">>)
    \/ \E source \in ForPrograms : Parse(source)
    \/ Resolve
    \/ AddScopes
    \/ \E now \in Times : Interpret(now)

ParserSpec == Init /\ [][ParserNext]_vars

\* The same client fed the source texts about the interpreter.
InterpreterNext ==
    \/ \E name \in DOMAIN InterpreterSource : Parse(InterpreterSource[name])
    \/ Resolve
    \/ AddScopes
    \/ \E now \in Times : Interpret(now)

InterpreterSpec == Init /\ [][InterpreterNext]_vars

\* run_prompt (main.rs) itself: where the client above goes on with the next
\* source text, run_prompt ends the process after a stage that returned
\* errors, by std::process::exit(64) after parse and resolve and by the
\* panic of `expect` after interpret.
Exit ==
    /\ pc = "prompt"
    /\ last.status # "Ok"
    /\ pc' = "dead"
    /\ UNCHANGED <<interp, next_expression_id, statements, pending_scopes, last, lines, lexed>>

RunPromptNext ==
    \/ \E source \in Sources : last.status = "Ok" /\ Parse(source)
    \/ Resolve
    \/ AddScopes
    \/ \E now \in Times : Interpret(now)
    \/ Exit

RunPromptSpec == Init /\ [][RunPromptNext]_vars

(***************************************************************************)
(* The properties of the interpreter.  `last` is the outcome of the last   *)
(* stage run, `interp` holds what the last interpret left: the output, the *)
(* heap, and the record of its accesses, blocks, Logicals and calls.       *)
(***************************************************************************)

\* C1: resolver soundness: every evaluation of a Variable, Assign, This or
\* Super expression that the resolver mapped to a depth finds its name in the
\* environment that many `enclosing` links up: it neither fails with
\* "Undefined variable" nor walks past the end of the chain.
ResolverSoundness ==
    \A a \in interp.accesses : a.depth >= 0 => a.status = "Ok"

\* C2: execute_block leaves the environment that was current before it,
\* whether its statements completed, failed or signalled Return, and so
\* between interpret calls the current environment is the globals.
BlockRestoresEnvironment ==
    /\ \A b \in interp.blocks : b.status # "panic" => b.after = b.previous
    /\ pc # "dead" => interp.environment = interp.globals

BlockRestoresEnvironmentWitness ==
    /\ lines = MaxLines
    /\ last.stage = "interpret"
    /\ last.status = "EnvironmentError"
    /\ interp.environment = interp.globals
    /\ \E b \in interp.blocks : b.status = "EnvironmentError" /\ b.previous # interp.globals
    /\ \E b \in interp.blocks : b.status = "EnvironmentError" /\ b.previous = interp.globals

\* C3: lexical scoping: a function declared in a block before the block's
\* own `a` updates the outer `a` on every call and leaves the local `a` as
\* it is, and a function called where another `a` is in scope still reads
\* the `a` of its declaration site.
LexicalScoping ==
    /\ (last.stage = "interpret" /\ last.source = Source.Resolves) =>
           /\ last.status = "Ok"
           /\ interp.out = <<"5", "3">>
           /\ interp.envs[interp.globals].values["a"] = ObjectNumber(3)
    /\ (last.stage = "interpret" /\ last.source = Source.ResolvesLocal) =>
           /\ last.status = "Ok"
           /\ interp.out = <<"5", "3">>
    /\ (last.stage = "interpret" /\ last.source = Source.CallSite) =>
           /\ last.status = "Ok"
           /\ interp.out = <<"outer">>

LexicalScopingWitness ==
    /\ last.stage = "interpret"
    /\ last.source = Source.Resolves
    /\ interp.out = <<"5", "3">>
    /\ \E c \in interp.calls : c.kind = "LoxFunction::call" /\ c.status = "Ok"

\* C4: closure fidelity: a function reads the latest value assigned to a
\* captured binding by itself on an earlier call, by a sibling closure or by
\* the defining scope, also after the call that made the binding returned;
\* counters of separate makeCounter calls count apart.
ClosureFidelity ==
    /\ (last.stage = "interpret" /\ last.source = Source.Counter) =>
           /\ last.status = "Ok"
           /\ interp.out = <<"1", "2", "1", "3">>
    /\ (last.stage = "interpret" /\ last.source = Source.Siblings) =>
           /\ last.status = "Ok"
           /\ interp.out = <<"2">>
    /\ (last.stage = "interpret" /\ last.source = Source.DefiningScope) =>
           /\ last.status = "Ok"
           /\ interp.out = <<"2">>

ClosureFidelityWitness ==
    /\ last.stage = "interpret"
    /\ last.source = Source.Siblings
    /\ interp.out = <<"2">>
    /\ interp.environment = interp.globals

\* C5: block scoping: a `var` in a block shadows the outer binding inside
\* the block only and is undefined after the block, while an assignment in
\* the block to a name the block does not declare changes the outer binding
\* for good.
BlockScoping ==
    /\ (last.stage = "interpret" /\ last.source = Source.Shadow) =>
           /\ last.status = "Ok"
           /\ interp.out = <<"2", "1">>
           /\ interp.envs[interp.globals].values["a"] = ObjectNumber(1)
    /\ (last.stage = "interpret" /\ last.source = Source.BlockLocal) =>
           /\ last.status = "EnvironmentError"
           /\ last.err = "Undefined variable 't'."
           /\ interp.out = <<"1">>
           /\ "t" \notin DOMAIN interp.envs[interp.globals].values
    /\ (last.stage = "interpret" /\ last.source = Source.BlockAssign) =>
           /\ last.status = "Ok"
           /\ interp.out = <<"3", "3">>
           /\ interp.envs[interp.globals].values["a"] = ObjectNumber(3)

BlockScopingWitness ==
    /\ last.stage = "interpret"
    /\ last.source = Source.Shadow
    /\ interp.out = <<"2", "1">>
    /\ \E b \in interp.blocks : b.status = "Ok"

\* C6: a `return` at any depth of blocks, ifs and loops ends exactly the call
\* it runs in: the rest of that body is skipped, the call has the returned
\* value (Nil for a bare return), and the caller goes on; no call ends with
\* the Return signal still travelling.
ReturnUnwindsOneCall ==
    /\ \A c \in interp.calls : c.status # "Return"
    /\ (last.stage = "interpret" /\ last.source = Source.Fib) =>
           /\ last.status = "Ok"
           /\ interp.out = <<"2">>
    /\ (last.stage = "interpret" /\ last.source = Source.NestedReturn) =>
           /\ last.status = "Ok"
           /\ interp.out = <<"3", "nil">>

ReturnUnwindsOneCallWitness ==
    /\ last.stage = "interpret"
    /\ last.source = Source.NestedReturn
    /\ interp.out = <<"3", "nil">>
    /\ \E b \in interp.blocks : b.status = "Return" /\ b.previous # interp.globals

\* C7: initializer identity: a call of a class evaluates to the new instance
\* its `init` (own or inherited) ran on, whether `init` ends normally or by a
\* bare return, and a direct call of `init` evaluates to its instance too.
InitializerIdentity ==
    /\ \A c \in interp.calls :
           (c.kind = "LoxFunction::call" /\ c.is_initializer /\ c.status = "Ok") =>
               (c.this.t = "Instance" /\ c.value = c.this)
    /\ \A c \in interp.calls :
           (c.kind = "Class" /\ c.status = "Ok") => c.value.t = "Instance"
    /\ (last.stage = "interpret" /\ last.source = Source.Init) =>
           /\ last.status = "Ok"
           /\ interp.out = <<"3", "4", "4", "5">>
    /\ (last.stage = "interpret" /\ last.source = Source.InitPlain) =>
           /\ last.status = "Ok"
           /\ interp.out = <<"1", "1">>

InitializerIdentityWitness ==
    /\ last.stage = "interpret"
    /\ last.source = Source.Init
    /\ interp.out = <<"3", "4", "4", "5">>
    /\ \E c \in interp.calls :
           c.kind = "LoxFunction" /\ c.status = "Ok" /\ c.value.t = "Instance"

\* C8: arity is enforced at every call: a call of clock, of a function or
\* method, or of a class whose number of arguments is not the callee's arity
\* fails with InterpreterError "Expected N arguments but got M.".
ArityEnforced ==
    \A c \in interp.calls :
        (c.kind \in {"Clock", "LoxFunction", "Class"} /\ c.nargs # c.arity) =>
            /\ c.status = "InterpreterError"
            /\ c.err = "Expected " \o ToString(c.arity) \o " arguments but got "
                           \o ToString(c.nargs) \o "."

\* C9: `a == b` and `a != b` lex, parse and evaluate to the Boolean of the
\* structural equality of a and b, without parse error and without abort.
EqualityEvaluates ==
    /\ last.source \in {Source.EqualEqual, Source.BangEqual, Source.StringBangEqual} =>
           last.status = "Ok"
    /\ (last.stage = "interpret" /\ last.source = Source.EqualEqual) =>
           interp.out = <<"true">>
    /\ (last.stage = "interpret" /\ last.source = Source.BangEqual) =>
           interp.out = <<"true">>
    /\ (last.stage = "interpret" /\ last.source = Source.StringBangEqual) =>
           interp.out = <<"false">>

\* C10: short-circuit: `a or b` evaluates b only when a is falsy and
\* `a and b` only when a is truthy; the result is a itself when b is
\* skipped and b's value otherwise, never a coerced boolean, and a is
\* evaluated once.
ShortCircuit ==
    /\ \A l \in interp.logicals :
           /\ l.right_evaluated =
                  (IF l.operator = "Or" THEN ~is_truthy(l.left) ELSE is_truthy(l.left))
           /\ ~l.right_evaluated => (l.status = "Ok" /\ l.value = l.left)
    /\ (last.stage = "interpret" /\ last.source = Source.LogicalValues) =>
           /\ last.status = "Ok"
           /\ interp.out = <<"b", "1", "nil", "2", "false">>
    /\ (last.stage = "interpret" /\ last.source = Source.LogicalEffects) =>
           /\ last.status = "Ok"
           /\ interp.out = <<"3">>

ShortCircuitWitness ==
    /\ last.stage = "interpret"
    /\ last.source = Source.LogicalEffects
    /\ interp.out = <<"3">>
    /\ \E l \in interp.logicals : ~l.right_evaluated /\ l.operator = "And"
    /\ \E l \in interp.logicals : ~l.right_evaluated /\ l.operator = "Or"

\* C11: bind gives a new function whose closure is a new environment that
\* defines only `this`, an instance, and encloses the closure of a method
\* with the same parameters, body and is_initializer flag; the methods in the
\* tables of the classes keep their closures, which never define `this`; so
\* the methods bound to two instances, and two evaluations of `a.get`, each
\* see their own instance.
BindIsFresh ==
    /\ \A e \in 1..Len(interp.envs) :
           "this" \in DOMAIN interp.envs[e].values =>
               /\ DOMAIN interp.envs[e].values = {"this"}
               /\ interp.envs[e].values["this"].t = "Instance"
    /\ \A c \in 1..Len(interp.classes) : \A name \in DOMAIN interp.classes[c].methods :
           "this" \notin DOMAIN interp.envs[interp.functions[
                                               interp.classes[c].methods[name]].closure].values
    /\ \A g \in 1..Len(interp.functions) :
           "this" \in DOMAIN interp.envs[interp.functions[g].closure].values =>
               \E c \in 1..Len(interp.classes) : \E name \in DOMAIN interp.classes[c].methods :
                   LET f == interp.functions[interp.classes[c].methods[name]]
                   IN  /\ f.parameters = interp.functions[g].parameters
                       /\ f.body = interp.functions[g].body
                       /\ f.is_initializer = interp.functions[g].is_initializer
                       /\ f.closure = interp.envs[interp.functions[g].closure].enclosing
    /\ (last.stage = "interpret" /\ last.source = Source.Rebind) =>
           /\ last.status = "Ok"
           /\ interp.out = <<"1", "2", "1", "1">>

BindIsFreshWitness ==
    /\ last.stage = "interpret"
    /\ last.source = Source.Rebind
    /\ interp.out = <<"1", "2", "1", "1">>
    /\ \E g, h \in 1..Len(interp.functions) :
           /\ "this" \in DOMAIN interp.envs[interp.functions[g].closure].values
           /\ "this" \in DOMAIN interp.envs[interp.functions[h].closure].values
           /\ interp.functions[g].body = interp.functions[h].body
           /\ interp.functions[g].closure # interp.functions[h].closure
           /\ interp.envs[interp.functions[g].closure].values["this"]
                  # interp.envs[interp.functions[h].closure].values["this"]

\* C12: `super.m` in a method of class B with superclass A finds m starting
\* at A, whatever the class of the receiver, also from a function nested in
\* the method, and binds it to the current `this`; a method defined only
\* above A is found; when no class from A upwards defines m the result is
\* InterpreterError "Undefined property 'm'.".
SuperLookup ==
    /\ (last.stage = "interpret" /\ last.source = Source.Super) =>
           /\ last.status = "Ok"
           /\ interp.out = <<"1", "1", "7", "1", "3">>
           /\ \A a \in interp.accesses : a.type = "Super" => a.depth >= 2 /\ a.status = "Ok"
    /\ (last.stage = "interpret" /\ last.source = Source.SuperMissing) =>
           /\ last.status = "InterpreterError"
           /\ last.err = "Undefined property 'm'."
           /\ interp.out = <<"4">>

SuperLookupWitness ==
    /\ last.stage = "interpret"
    /\ last.source = Source.Super
    /\ interp.out = <<"1", "1", "7", "1", "3">>
    /\ \E a, b \in interp.accesses : a.type = "Super" /\ b.type = "Super" /\ a.depth # b.depth

\* C13 as stated: a property read `o.name` on an instance gives the field
\* `name` if there is one, even when a method has that name; otherwise the
\* first method `name` from the instance's class up the superclass chain,
\* bound to o; otherwise InterpreterError "Undefined property 'name'."; on a
\* value that is no instance it fails with "Only instances have fields.".
\* In Source.Props the field f set on b shadows the method f, g is B's
\* override and sees b as `this`, and f before the write is A's method.
PropertyReadQuoted ==
    /\ (last.stage = "interpret" /\ last.source = Source.Props) =>
           /\ last.status = "Ok"
           /\ interp.out = <<"1", "3", "5">>
    /\ (last.stage = "interpret" /\ last.source = Source.PropNonInstance) =>
           /\ last.status = "InterpreterError"
           /\ last.err = "Only instances have fields."
           /\ interp.out = <<"4">>
    /\ (last.stage = "interpret" /\ last.source = Source.PropMissing) =>
           /\ last.status = "InterpreterError"
           /\ last.err = "Undefined property 'nope'."
           /\ interp.out = <<"4">>

\* C13, amended: as above, but the error of a read that finds neither field
\* nor method is InterpreterError "Undefined property name." with the name
\* not quoted.
PropertyRead ==
    /\ (last.stage = "interpret" /\ last.source = Source.Props) =>
           /\ last.status = "Ok"
           /\ interp.out = <<"1", "3", "5">>
    /\ (last.stage = "interpret" /\ last.source = Source.PropNonInstance) =>
           /\ last.status = "InterpreterError"
           /\ last.err = "Only instances have fields."
           /\ interp.out = <<"4">>
    /\ (last.stage = "interpret" /\ last.source = Source.PropMissing) =>
           /\ last.status = "InterpreterError"
           /\ last.err = "Undefined property nope."
           /\ interp.out = <<"4">>

PropertyReadWitness ==
    /\ lines = MaxLines
    /\ last.stage = "interpret"
    /\ last.source = Source.PropMissing
    /\ last.err = "Undefined property nope."
    /\ \E i \in 1..Len(interp.instances) : "f" \in DOMAIN interp.instances[i].fields

\* C14: a property write `o.name = v` on an instance creates or overwrites
\* that field and nothing else: the other fields of o and the other
\* instances keep their values, a later read through any reference to the
\* instance gives v, and the Set expression itself evaluates to nil; on a
\* value that is no instance it fails with InterpreterError "Only instances
\* have fields." after the object and the value have both been evaluated.
PropertyWrite ==
    /\ (last.stage = "interpret" /\ last.source = Source.Fields) =>
           /\ last.status = "Ok"
           /\ interp.out = <<"nil", "1", "2", "6", "4">>
           /\ \E a, c \in 1..Len(interp.instances) :
                  /\ a # c
                  /\ interp.instances[a].fields
                         = MapInsert(MapInsert(EmptyMap, "y", ObjectNumber(4)),
                                     "x", ObjectNumber(2))
                  /\ interp.instances[c].fields = MapInsert(EmptyMap, "x", ObjectNumber(6))
    /\ (last.stage = "interpret" /\ last.source = Source.SetNonInstance) =>
           /\ last.status = "InterpreterError"
           /\ last.err = "Only instances have fields."
           /\ interp.out = <<"0", "1">>

PropertyWriteWitness ==
    /\ last.stage = "interpret"
    /\ last.source = Source.Fields
    /\ interp.out = <<"nil", "1", "2", "6", "4">>
    /\ Len(interp.instances) > 2

\* C15: resolving `var a = a;` in a block, with or without an outer `a`,
\* fails with ResolverError "Cannot read local variable in its own
\* initializer", so that the program is never added to the interpreter or run.
OwnInitializerRejected ==
    (last.source \in {Source.VarOwnInit, Source.OwnInit}
        /\ last.stage \in {"resolve", "add_scopes", "interpret"}) =>
        /\ last.stage = "resolve"
        /\ last.status = "ResolverError"
        /\ last.err = "Cannot read local variable in its own initializer"

(***************************************************************************)
(* The properties of the resolver, checked under ResolverSpec.  In each,   *)
(* Rejected(source, msg) says that resolve returned ResolverError(msg) for *)
(* the source text and the client went back to the prompt, so that nothing *)
(* of the text was added to or run by the interpreter; Accepted(source,    *)
(* out) says that resolve returned Ok for it and that its run printed out. *)
(***************************************************************************)

\* C16: a return outside every function or method body, with or without a
\* value and however deep in blocks, ifs and whiles, is rejected with "Cannot
\* return from top-level code."; a return with a value directly in a method
\* named init is rejected with "Cannot return a value from an initializer.";
\* a return in a function nested in init, a bare return in init and returns
\* in functions and methods are accepted; and the function kind is restored
\* after a function, a method and a function nested in init.
ReturnLegality ==
    LET Rejected(source, msg) ==
            (last.source = source /\ last.stage \in {"resolve", "add_scopes", "interpret"}) =>
                /\ last.stage = "resolve"
                /\ last.status = "ResolverError"
                /\ last.err = msg
                /\ pc = "prompt"
        Accepted(source, out) ==
            /\ (last.source = source /\ last.stage = "resolve") => last.status = "Ok"
            /\ (last.source = source /\ last.stage = "interpret") =>
                   last.status = "Ok" /\ interp.out = out
    IN  /\ Rejected(ResolverSource.RetTop, "Cannot return from top-level code.")
        /\ Rejected(ResolverSource.RetTopNested, "Cannot return from top-level code.")
        /\ Rejected(ResolverSource.RetAfterFunction, "Cannot return from top-level code.")
        /\ Rejected(ResolverSource.RetAfterMethod, "Cannot return from top-level code.")
        /\ Rejected(ResolverSource.RetInit, "Cannot return a value from an initializer.")
        /\ Rejected(ResolverSource.RetAfterNested, "Cannot return a value from an initializer.")
        /\ Accepted(ResolverSource.RetAccepted, <<"2">>)

ReturnLegalityWitness ==
    /\ lines = MaxLines
    /\ last.stage = "resolve"
    /\ last.source = ResolverSource.RetAfterNested
    /\ last.err = "Cannot return a value from an initializer."
    /\ Len(interp.classes) > 0

\* C17: `this` and `super` outside every class declaration, also after a
\* class declaration has ended, are rejected with "Cannot use 'this' outside
\* of a class." and "Cannot use 'super' outside of a class."; `super` in a
\* method of a class without superclass, also one nested in a method of a
\* subclass, with "Cannot use 'super' in a class with no superclass."; in
\* the methods of a class with a superclass both are accepted and every use
\* gets a depth.
ThisSuperLegality ==
    LET Rejected(source, msg) ==
            (last.source = source /\ last.stage \in {"resolve", "add_scopes", "interpret"}) =>
                /\ last.stage = "resolve"
                /\ last.status = "ResolverError"
                /\ last.err = msg
                /\ pc = "prompt"
        Accepted(source, out) ==
            /\ (last.source = source /\ last.stage = "resolve") => last.status = "Ok"
            /\ (last.source = source /\ last.stage = "interpret") =>
                   last.status = "Ok" /\ interp.out = out
    IN  /\ Rejected(ResolverSource.ThisTop, "Cannot use 'this' outside of a class.")
        /\ Rejected(ResolverSource.ThisAfterClass, "Cannot use 'this' outside of a class.")
        /\ Rejected(ResolverSource.SuperTop, "Cannot use 'super' outside of a class.")
        /\ Rejected(ResolverSource.SuperAfterClass, "Cannot use 'super' outside of a class.")
        /\ Rejected(ResolverSource.SuperNoSuperclass,
                    "Cannot use 'super' in a class with no superclass.")
        /\ Rejected(ResolverSource.SuperNested,
                    "Cannot use 'super' in a class with no superclass.")
        /\ Accepted(ResolverSource.ThisSuperAccepted, <<"3">>)
        /\ (last.source = ResolverSource.ThisSuperAccepted /\ last.stage = "interpret") =>
               /\ \A a \in interp.accesses : a.type \in {"This", "Super"} => a.depth >= 0
               /\ \E a, b \in interp.accesses : a.type = "This" /\ b.type = "Super"

ThisSuperLegalityWitness ==
    /\ lines = MaxLines
    /\ last.stage = "resolve"
    /\ last.source = ResolverSource.SuperNested
    /\ last.err = "Cannot use 'super' in a class with no superclass."
    /\ \E a \in interp.accesses : a.type = "Super"

\* C18: a class declaration whose superclass has the name of the class itself,
\* at top level or in a nested scope, is rejected with "A class cannot
\* inherit from itself." before any of its methods is resolved (a method
\* that would be rejected itself does not change the message) and before
\* anything runs (the print before the class prints nothing).
NoSelfInheritance ==
    LET Rejected(source, msg) ==
            (last.source = source /\ last.stage \in {"resolve", "add_scopes", "interpret"}) =>
                /\ last.stage = "resolve"
                /\ last.status = "ResolverError"
                /\ last.err = msg
                /\ pc = "prompt"
        Accepted(source, out) ==
            /\ (last.source = source /\ last.stage = "resolve") => last.status = "Ok"
            /\ (last.source = source /\ last.stage = "interpret") =>
                   last.status = "Ok" /\ interp.out = out
    IN  /\ Rejected(ResolverSource.SelfInherit, "A class cannot inherit from itself.")
        /\ Rejected(ResolverSource.SelfInheritNested, "A class cannot inherit from itself.")
        /\ Accepted(ResolverSource.Inherit, <<"5">>)
        /\ (last.stage = "resolve" /\ last.status = "ResolverError") =>
               pending_scopes = EmptyMap /\ statements = <<>>

NoSelfInheritanceWitness ==
    /\ lines = MaxLines
    /\ last.stage = "resolve"
    /\ last.source = ResolverSource.SelfInherit
    /\ last.err = "A class cannot inherit from itself."
    /\ interp.out = <<"5">>

(***************************************************************************)
(* The properties of the lexer, checked under LexerSpec.                   *)
(***************************************************************************)

\* C19: when a string literal is opened and never closed before the end of
\* the source, the errors lex returns contain a LexerError "Unterminated
\* string", no String token is produced for it, and the tokens end with Eof.
\* When there is no comment, the quotes pair up from the left, so that with
\* an odd number of them the last one opens a string that is never closed.
UnterminatedStringReported ==
    LET Quotes == Cardinality({k \in 1..Len(lexed.source) : lexed.source[k] = "\""})
        Strings == Cardinality({k \in 1..Len(lexed.tokens) :
                                   lexed.tokens[k].token_type = "String"})
    IN  (/\ lexed.status = "Ok"
         /\ \A k \in 1..Len(lexed.source) : lexed.source[k] # "/"
         /\ Quotes % 2 = 1) =>
            /\ \E k \in 1..Len(lexed.errors) : lexed.errors[k].msg = "Unterminated string"
            /\ Strings = Quotes \div 2
            /\ lexed.tokens[Len(lexed.tokens)].token_type = "Eof"

\* C20: whenever lex returns, the tokens hold exactly one Eof and it is the
\* last one, and every error is an "Unexpected character" error; in a source
\* without strings and comments each character that starts no token gives
\* one error, in source order and with its line, and the tokens are those of
\* the source with blanks in the place of these characters: the valid tokens
\* before and after them, in order.
EofLastErrorsContinue ==
    LET source == lexed.source
        \* the positions whose character starts no token and is no white space
        Unexpected ==
            {k \in 1..Len(source) :
                source[k] \notin Digits \cup Alphas
                                 \cup {"(", ")", "{", "}", ",", ".", "+", "-", "*", ";", "!",
                                       "=", "<", ">", "/", " ", "\r", "\t", "\n", "\""}}
        Blanked == [k \in 1..Len(source) |-> IF k \in Unexpected THEN " " ELSE source[k]]
        LineOf(k) == 1 + Cardinality({j \in 1..(k - 1) : source[j] = "\n"})
    IN  lexed.status = "Ok" =>
            /\ Len(lexed.tokens) > 0
            /\ \A k \in 1..Len(lexed.tokens) :
                   (lexed.tokens[k].token_type = "Eof") <=> (k = Len(lexed.tokens))
            /\ \A k \in 1..Len(lexed.errors) :
                   \E j \in Unexpected :
                       lexed.errors[k].msg = "Unexpected character '" \o source[j] \o "'"
            /\ (\A k \in 1..Len(source) : source[k] \notin {"\"", "/"}) =>
                   /\ Len(lexed.errors) = Cardinality(Unexpected)
                   /\ \A j \in Unexpected :
                          lexed.errors[Cardinality({u \in Unexpected : u <= j})]
                              = [line |-> LineOf(j),
                                 msg |-> "Unexpected character '" \o source[j] \o "'"]
                   /\ lex_chars(Blanked).status = "Ok"
                   /\ lex_chars(Blanked).tokens = lexed.tokens

EofLastErrorsContinueWitness ==
    /\ lexed.status = "Ok"
    /\ lexed.source = <<"a", "@", "\n", "1">>
    /\ lexed.errors = <<[line |-> 1, msg |-> "Unexpected character '@'"]>>
    /\ Len(lexed.tokens) = 3
    /\ lexed.tokens[1].token_type = "Identifier"
    /\ lexed.tokens[2].token_type = "Number"
    /\ lexed.tokens[2].line = 2

\* C21: a number literal is the maximal run of digits, optionally followed by
\* one '.' and at least one digit.  For a source that starts with a digit,
\* or with a blank and then a digit, lex returns, its first token is the
\* Number whose lexeme is exactly that text, and the tokens after it are the
\* tokens of the characters that follow the literal.
NumberIsMaximalRun ==
    LET source == lexed.source
        start == IF Len(source) > 0 /\ source[1] = " " THEN 2 ELSE 1
        whole == skip_while(source, start, Digits)
        end == IF /\ whole + 1 <= Len(source)
                  /\ source[whole] = "."
                  /\ source[whole + 1] \in Digits
               THEN skip_while(source, whole + 1, Digits)
               ELSE whole
        rest == lex_chars(SubSeq(source, end, Len(source)))
    IN  (/\ lexed.status # "reading"
         /\ start <= Len(source)
         /\ source[start] \in Digits) =>
            /\ lexed.status # "panic"
            /\ Len(lexed.tokens) > 0
            /\ lexed.tokens[1].token_type = "Number"
            /\ lexed.tokens[1].lexeme = SubSeq(source, start, end - 1)
            /\ Tail(lexed.tokens) = rest.tokens

\* C28: the line of a token, and of a LexerError, is 1 plus the number of
\* newlines before its first character, newlines inside earlier string
\* literals included.  Checked on the Eof token of every source, and on the
\* token or error of the last character of a source that ends outside a
\* string and has no comment: no token but a String spans lines, so that
\* token begins on the line of the last character.
LineCountsEveryNewline ==
    LET source == lexed.source
        n == Len(source)
        LineOf(k) == 1 + Cardinality({j \in 1..(k - 1) : source[j] = "\n"})
        Quotes == {k \in 1..n : source[k] = "\""}
    IN  lexed.status = "Ok" =>
            /\ lexed.tokens[Len(lexed.tokens)].line = LineOf(n + 1)
            /\ (/\ n > 0
                /\ Cardinality(Quotes) % 2 = 0
                /\ \A k \in 1..n : source[k] # "/") =>
                   /\ source[n] \in {"a", "1", "."} =>
                          lexed.tokens[Len(lexed.tokens) - 1].line = LineOf(n)
                   /\ source[n] = "@" =>
                          lexed.errors[Len(lexed.errors)].line = LineOf(n)

\* C30: lex returns on every finite source: it neither loops forever nor
\* panics, whatever the source ends with.
LexReturns ==
    lexed.status \in {"reading", "Ok"}

(***************************************************************************)
(* The properties of the parser.  After Parse, `statements` holds what     *)
(* parse returned for last.source and next_expression_id the counter it    *)
(* left.                                                                   *)
(***************************************************************************)

\* C22: the statement `target = value ;` parses, from the expression that
\* target parses to on its own and the expression that value parses to
\* after it, to an Assign of the same name with an id of its own when target
\* is a Variable, to a Set on the same object and name when target is a Get,
\* and otherwise to ParserError(None, "Invalid assignment target"); the
\* value is itself parsed as an assignment, so `=` associates to the right.
AssignmentParsing ==
    \A target \in AssignmentTargets, value \in AssignmentValues :
        (/\ last.stage = "parse"
         /\ last.source = target \o <<"=">> \o value \o <<";">>) =>
            LET first_id == next_expression_id - parse(lex(last.source), 0).nid
                expr == expression(lex(target), 1, first_id)
                right == expression(lex(value), 1, expr.nid)
            IN  /\ expr.ok
                /\ right.ok
                /\ CASE expr.v.type = "Variable" ->
                            /\ last.status = "Ok"
                            /\ statements = <<StmtExpression(
                                   ExprAssign(right.nid, expr.v.name, right.v))>>
                            /\ right.nid # expr.v.id
                            /\ next_expression_id = right.nid + 1
                     [] expr.v.type = "Get" ->
                            /\ last.status = "Ok"
                            /\ statements = <<StmtExpression(
                                   ExprSet(expr.v.object, expr.v.name, right.v))>>
                            /\ next_expression_id = right.nid
                     [] OTHER ->
                            /\ last.status = "ParserError"
                            /\ last.err = "Invalid assignment target"
                            /\ statements = <<>>
                            /\ parse(lex(last.source), first_id).errors[1]
                                   = [line |-> 0, msg |-> "Invalid assignment target"]

AssignmentParsingWitness ==
    /\ last.stage = "parse"
    /\ last.source = <<"a", "=", "b", "=", "c", ";">>
    /\ lines = 1
    /\ statements = <<StmtExpression(
           ExprAssign(4, "a", ExprAssign(3, "b", ExprVariable(2, "c"))))>>

ReturnNeverLeaks ==
    /\ last.stage = "interpret" => last.status # "Return"
    /\ \A c \in interp.calls : c.kind = "LoxFunction::call" => c.status # "Return"
    /\ (last.stage = "interpret" /\ last.source = ResolverSource.RetInnermost) =>
           /\ last.status = "Ok"
           /\ interp.out = <<"1", "2">>

ReturnNeverLeaksWitness ==
    /\ last.stage = "interpret"
    /\ last.source = ResolverSource.RetInnermost
    /\ interp.out = <<"1", "2">>
    /\ Cardinality({b \in interp.blocks : b.status = "Return"}) >= 3
    /\ \E c \in interp.calls : c.kind = "LoxFunction::call" /\ c.is_initializer /\ c.status = "Ok"

(***************************************************************************)
(* The properties of run_prompt.                                           *)
(***************************************************************************)

\* C24: a runtime error (EnvironmentError or InterpreterError) raised while
\* interpreting one input line aborts only that line: the process keeps
\* running and prompts again.
RuntimeErrorKeepsPrompt ==
    (last.stage = "interpret" /\ last.status \in {"EnvironmentError", "InterpreterError"}) =>
        pc = "prompt"

(***************************************************************************)
(* The properties of evaluation, checked on the programs of                *)
(* InterpreterSource.                                                      *)
(***************************************************************************)

\* C26: evaluation order.  A call evaluates its callee, then its arguments
\* from left to right, each once, and only then checks the callee and the
\* arity; an error in an argument leaves the arguments after it unevaluated;
\* a binary expression evaluates its left operand, then its right, then
\* checks their types; statements run in source order.  So prints,
\* assignments and field writes happen in program order.
EvaluationOrder ==
    LET Ends(source, out, status, err) ==
            (last.stage = "interpret" /\ last.source = source) =>
                /\ interp.out = out
                /\ last.status = status
                /\ last.err = err
    IN  /\ Ends(InterpreterSource.Order, <<"0", "1", "2", "3", "3", "4", "-1", "5", "6">>,
                "InterpreterError", "Can only call functions and classes.")
        /\ Ends(InterpreterSource.OrderArgument, <<"1">>,
                "EnvironmentError", "Undefined variable 'nope'.")
        /\ Ends(InterpreterSource.OrderArity, <<"1", "2", "3">>,
                "InterpreterError", "Expected 2 arguments but got 3.")
        /\ Ends(InterpreterSource.OrderBinary, <<"1", "a">>, "InterpreterError",
                "Expected both operands to be numbers, but got '1' and 'a'")
        /\ Ends(InterpreterSource.OrderEffects, <<"5", "4", "-5", "8">>, "Ok", "")

EvaluationOrderWitness ==
    /\ last.stage = "interpret"
    /\ last.source = InterpreterSource.Order
    /\ interp.out = <<"0", "1", "2", "3", "3", "4", "-1", "5", "6">>
    /\ last.err = "Can only call functions and classes."

\* C27: reading or assigning a name that is not defined in the targeted
\* scope fails with EnvironmentError "Undefined variable 'x'." and changes no
\* environment, so assignment never creates a binding; a successful assign at
\* depth d changes the binding of the name in the scope d hops out and
\* nothing else.  The targeted scope is the globals for an unresolved name
\* and the scope d hops out for a resolved one.  The first conjunct applies
\* Environment::get and Environment::assign to every environment an
\* interpretation has left, the others are programs whose accesses fail.
MissingNameNoEffect ==
    LET enclosing(env) == IF env = 0 THEN 0 ELSE interp.envs[env].enclosing
        target(env, depth) ==
            CASE depth = 0 -> env
              [] depth = 1 -> enclosing(env)
              [] depth = 2 -> enclosing(enclosing(env))
        undefined(name) == "Undefined variable '" \o name \o "'."
        Ends(source, out, status, err) ==
            (last.stage = "interpret" /\ last.source = source) =>
                /\ interp.out = out
                /\ last.status = status
                /\ last.err = err
        Values(name) == {interp.envs[env].values[name] :
                             env \in {e \in 1..Len(interp.envs) :
                                          name \in DOMAIN interp.envs[e].values}}
    IN  /\ \A env \in 1..Len(interp.envs), depth \in 0..2, name \in {"a", "b", "c"} :
               target(env, depth) # 0 =>
                   LET scope == target(env, depth)
                       got == Environment_get(interp, env, depth, name)
                       assigned == Environment_assign(interp, env, depth, name,
                                                      ObjectNumber(9))
                   IN  IF name \in DOMAIN interp.envs[scope].values
                       THEN /\ got = ROk(interp, interp.envs[scope].values[name])
                            /\ assigned.status = "Ok"
                            /\ assigned.st
                                   = [interp EXCEPT !.envs[scope].values[name]
                                                        = ObjectNumber(9)]
                       ELSE /\ got = RErr(interp, "EnvironmentError", undefined(name))
                            /\ assigned = RErr(interp, "EnvironmentError", undefined(name))
        /\ Ends(InterpreterSource.MissingGlobalAssign, <<"2">>,
                "EnvironmentError", undefined("c"))
        /\ Ends(InterpreterSource.MissingGlobalRead, <<"2">>,
                "EnvironmentError", undefined("c"))
        /\ Ends(InterpreterSource.MissingLocalAssign, <<"2">>,
                "EnvironmentError", undefined("a"))
        /\ Ends(InterpreterSource.MissingLocalRead, <<"2">>,
                "EnvironmentError", undefined("a"))
        /\ Ends(InterpreterSource.AssignDepth, <<"5", "4", "2", "1">>, "Ok", "")
        /\ (/\ last.stage = "interpret"
            /\ lines = 1
            /\ last.source \in {InterpreterSource.MissingGlobalAssign,
                                InterpreterSource.MissingGlobalRead,
                                InterpreterSource.MissingLocalAssign,
                                InterpreterSource.MissingLocalRead}) =>
               /\ Values("a") = {ObjectNumber(1)}
               /\ Values("b") \subseteq {ObjectNumber(2)}
               /\ Values("c") = {}

MissingNameNoEffectWitness ==
    /\ last.stage = "interpret"
    /\ lines = 1
    /\ last.source = InterpreterSource.MissingLocalAssign
    /\ last.err = "Undefined variable 'a'."
    /\ Len(interp.envs) = 3
    /\ interp.envs[interp.globals].values["a"] = ObjectNumber(1)
    /\ \E access \in interp.accesses :
           access.type = "Assign" /\ access.depth = 0 /\ access.status = "EnvironmentError"

(***************************************************************************)
(* The properties of the expression ids.  expr_ids and stmt_ids list the   *)
(* ids of the Variable, Assign, This and Super nodes of a syntax tree      *)
(* (statement.rs), one entry per node.                                     *)
(***************************************************************************)
RECURSIVE expr_ids(_)
RECURSIVE exprs_ids(_)
RECURSIVE stmt_ids(_)
RECURSIVE stmts_ids(_)

exprs_ids(exprs) ==
    IF exprs = <<>> THEN <<>> ELSE expr_ids(Head(exprs)) \o exprs_ids(Tail(exprs))

expr_ids(expr) ==
    CASE expr.type \in {"Number", "String", "Boolean", "Nil"} -> <<>>
      [] expr.type = "Binary" -> expr_ids(expr.left) \o expr_ids(expr.right)
      [] expr.type = "Call" -> expr_ids(expr.callee) \o exprs_ids(expr.arguments)
      [] expr.type = "Get" -> expr_ids(expr.object)
      [] expr.type = "Set" -> expr_ids(expr.object) \o expr_ids(expr.value)
      [] expr.type \in {"Super", "This", "Variable"} -> <<expr.id>>
      [] expr.type = "Grouping" -> expr_ids(expr.expression)
      [] expr.type = "Unary" -> expr_ids(expr.right)
      [] expr.type = "Logical" -> expr_ids(expr.left) \o expr_ids(expr.right)
      [] expr.type = "Assign" -> <<expr.id>> \o expr_ids(expr.value)

stmts_ids(stmts) ==
    IF stmts = <<>> THEN <<>> ELSE stmt_ids(Head(stmts)) \o stmts_ids(Tail(stmts))

stmt_ids(stmt) ==
    CASE stmt.type \in {"Expression", "Print"} -> expr_ids(stmt.expression)
      [] stmt.type = "Var" -> exprs_ids(stmt.initializer)
      [] stmt.type = "Block" -> stmts_ids(stmt.statements)
      [] stmt.type = "If" -> expr_ids(stmt.condition) \o stmt_ids(stmt.then_branch)
                                 \o stmts_ids(stmt.else_branch)
      [] stmt.type = "While" -> expr_ids(stmt.condition) \o stmt_ids(stmt.body)
      [] stmt.type = "Function" -> stmts_ids(stmt.body)
      [] stmt.type = "Return" -> exprs_ids(stmt.value)
      [] stmt.type = "Class" -> exprs_ids(stmt.superclass) \o stmts_ids(stmt.methods)

\* The ids of the nodes the interpreter holds: the bodies of its functions.
held_ids(st) ==
    UNION {{stmts_ids(st.functions[f].body)[i] :
                i \in 1..Len(stmts_ids(st.functions[f].body))} :
           f \in 1..Len(st.functions)}

\* C29: expression ids are unique across the process.  The nodes of one
\* parse carry pairwise different ids, all of them taken from the counter
\* during that parse, so they differ from the ids of every earlier parse and
\* an Assign never has the id of a Variable; the counter never goes back;
\* the scopes a resolve returned are keyed by ids of its own statements and
\* by none the interpreter already has; add_scopes and interpret keep every
\* depth recorded before; and a function defined on an earlier line still
\* finds its variables on a later line that uses the same names at other
\* depths.
ExprIdsUnique ==
    /\ [](LET ids == stmts_ids(statements)
              id_set == {ids[i] : i \in 1..Len(ids)}
          IN  /\ Cardinality(id_set) = Len(ids)
              /\ \A id \in id_set \cup held_ids(interp) \cup DOMAIN interp.scopes
                         \cup DOMAIN pending_scopes : id < next_expression_id
              /\ DOMAIN pending_scopes \subseteq id_set
              /\ DOMAIN pending_scopes \cap DOMAIN interp.scopes = {}
              /\ pc \in {"parsed", "resolved"} =>
                     id_set \cap (held_ids(interp) \cup DOMAIN interp.scopes) = {}
              /\ (/\ last.stage = "interpret"
                  /\ last.source = InterpreterSource.ScopesSecond
                  /\ "keep" \in DOMAIN interp.envs[interp.globals].values) =>
                     /\ last.status = "Ok"
                     /\ interp.out = <<"5", "1", "2">>)
    /\ [][/\ next_expression_id' >= next_expression_id
          /\ (pc = "prompt" /\ pc' = "parsed") =>
                 \A i \in 1..Len(stmts_ids(statements')) :
                     /\ stmts_ids(statements')[i] >= next_expression_id
                     /\ stmts_ids(statements')[i] < next_expression_id'
          /\ \A id \in DOMAIN interp.scopes :
                 /\ id \in DOMAIN interp'.scopes
                 /\ interp'.scopes[id] = interp.scopes[id]]_vars

ExprIdsUniqueWitness ==
    /\ last.stage = "interpret"
    /\ lines = 2
    /\ last.source = InterpreterSource.ScopesSecond
    /\ interp.out = <<"5", "1", "2">>
    /\ interp.scopes = (0 :> 1) @@ (2 :> 1) @@ (3 :> 1) @@ (4 :> 1) @@ (5 :> 0)
    /\ next_expression_id = 7

=============================================================================
